---- MODULE Spec2Model ----
(***************************************************************************)
(* Model of the redis-rust data engine: the keyspace (src/db.rs), stream   *)
(* id synthesis (src/commands/xstream_helpers.rs), the blocked-client      *)
(* registry (src/db.rs BlockingQueue) and the command executor             *)
(* (src/commands.rs Command::execute), one task per client connection.     *)
(*                                                                         *)
(* Strings that the code inspects character by character (stream ids) are  *)
(* sequences of ASCII codes, so that formatting, parsing and the byte-wise *)
(* string order used by binary_search_by_key are modelled as they are.     *)
(***************************************************************************)
EXTENDS Integers, Sequences, FiniteSets, TLC

VARIABLES
    values,           \* Db.values: key -> DbValue (or NoValue)
    expirations,      \* Db.expirations: key -> Instant (or NoTime)
    waiting_clients,  \* Db.blocking_queue.waiting_clients: key -> queue of BlockedClient
    lock,             \* holder of the Arc<Mutex<Db>> (a client, or NoOne)
    now,              \* tokio::time::Instant::now(), in milliseconds
    pc,               \* position of every connection task inside Command::execute
    cmd,              \* the Command every task is executing
    resp,             \* the Result<RespValue> of the task's latest command
    local,            \* locals of execute that live across an await
    chan,             \* the mpsc channel of the task's XREAD BLOCK (receiver side)
    uuid_next         \* source of fresh Uuid::new_v4() values

vars == <<values, expirations, waiting_clients, lock, now, pc, cmd, resp, local, chan, uuid_next>>

----------------------------------------------------------------------------
(* Bounds of the model *)

MaxMs == 1            \* timestamps 0..MaxMs (and one two-digit timestamp) are requested
MaxSeq == 1           \* explicit sequence numbers 0..MaxSeq are requested
MaxStreamLen == 2     \* XADD is not issued on a stream that already has this many records
MaxListLen == 2       \* pushes are not issued on a list that already has this many elements
MaxTime == 11         \* the clock stops advancing at MaxTime ticks
MaxWaiters == 2       \* number of XREAD BLOCK registrations in one behaviour
MaxOpsLen == 3        \* longest list of the workload of the list operations
MaxIndex == 4         \* LRANGE is issued with indices -MaxIndex..MaxIndex
SmallCapacity == 1    \* capacity of the channels of the workload of the registry
SeqBits == 3          \* width of a sequence number: the 64 bits of u64, scaled down

\* u64::MAX + 1 at the width of the model
SeqLimit == 2 ^ SeqBits

Clients == {"c1", "c2", "c3"}
Peers == {"c1", "c2"}         \* the connections that issue commands in most workloads
Solo == {"c1"}                \* the connection of the workloads of one client
NoOne == "none"
StreamKeys == {"s"}
ListKeys == {"q"}
Keys == StreamKeys \cup ListKeys
ListVals == {"a", "b"}
FieldMaps == {"f"}

----------------------------------------------------------------------------
(* Characters and strings *)

Dash == 45
Star == 42
Plus == 43
DigitZero == 48

IsDigit(ch) == ch >= DigitZero /\ ch <= DigitZero + 9

RECURSIVE ToStr(_)
\* format!("{n}") of an unsigned integer
ToStr(n) == IF n < 10 THEN <<DigitZero + n>>
            ELSE ToStr(n \div 10) \o <<DigitZero + (n % 10)>>

\* format!("{new_timestamp}-{new_sequence_number}")
FormatId(ms, seq) == ToStr(ms) \o <<Dash>> \o ToStr(seq)

RECURSIVE DigitsValue(_)
DigitsValue(s) == IF Len(s) = 0 THEN 0
                  ELSE 10 * DigitsValue(SubSeq(s, 1, Len(s) - 1)) + (s[Len(s)] - DigitZero)

ParseErr == -1
\* str::parse::<u128>() / parse::<u64>(): an optional '+', then one or more digits
ParseUnsigned(s) ==
    LET body == IF Len(s) > 0 /\ s[1] = Plus THEN SubSeq(s, 2, Len(s)) ELSE s
    IN  IF Len(body) > 0 /\ \A i \in 1..Len(body) : IsDigit(body[i])
        THEN DigitsValue(body)
        ELSE ParseErr

\* str::split_once('-'): position of the first '-' (0 when there is none)
DashPos(s) == IF \E i \in 1..Len(s) : s[i] = Dash
              THEN CHOOSE i \in 1..Len(s) : s[i] = Dash /\ \A j \in 1..(i - 1) : s[j] # Dash
              ELSE 0
SplitHead(s) == SubSeq(s, 1, DashPos(s) - 1)
SplitTail(s) == SubSeq(s, DashPos(s) + 1, Len(s))

RECURSIVE StrCmp(_, _)
\* <String as Ord>::cmp: byte-wise lexicographic order; -1 Less, 0 Equal, 1 Greater
StrCmp(a, b) ==
    IF Len(a) = 0 /\ Len(b) = 0 THEN 0
    ELSE IF Len(a) = 0 THEN -1
    ELSE IF Len(b) = 0 THEN 1
    ELSE IF a[1] < b[1] THEN -1
    ELSE IF a[1] > b[1] THEN 1
    ELSE StrCmp(Tail(a), Tail(b))

----------------------------------------------------------------------------
(* Option and Result values *)

None == [some |-> FALSE, v |-> <<>>]
Some(x) == [some |-> TRUE, v |-> x]

Ok(x) == [ok |-> TRUE, v |-> x, msg |-> ""]
Err(m, arg) == [ok |-> FALSE, v |-> arg, msg |-> m]

MsgIdZero == "ERR The ID specified in XADD must be greater than 0-0"
MsgIdNotGreater == "ERR The ID specified in XADD is equal or smaller than the target stream top item"
MsgInvalidLast == "Invalid last stream ID format: "
MsgInvalidId == "Invalid stream ID format: "
MsgBadTimestamp == "Timestamp is not a valid number"
MsgBadSequence == "Sequence is not a valid number"
MsgParseInt == "invalid digit found in string"
MsgUnknownCommand == "Unknown command: "
MsgLpopNoKey == "LPOP command requires a key"

----------------------------------------------------------------------------
(* derive_new_stream_id, src/commands/xstream_helpers.rs *)

\* (last_ms_time, last_seq_num): the parsed last id, (0, 0) without one
LastMsTime(last_item_id) ==
    IF last_item_id.some THEN ParseUnsigned(SplitHead(last_item_id.v)) ELSE 0
LastSeqNum(last_item_id) ==
    IF last_item_id.some THEN ParseUnsigned(SplitTail(last_item_id.v)) ELSE 0

\* (requested_timestamp_part, requested_sequence_part)
RequestedTimestampPart(requested_id_str) ==
    IF requested_id_str = <<Star>> THEN <<Star>> ELSE SplitHead(requested_id_str)
RequestedSequencePart(requested_id_str) ==
    IF requested_id_str = <<Star>> THEN <<Star>> ELSE SplitTail(requested_id_str)

\* new_timestamp; current_system_time_millis is SystemTime::now() in ms
NewTimestamp(requested_id_str, current_system_time_millis) ==
    IF RequestedTimestampPart(requested_id_str) = <<Star>>
    THEN current_system_time_millis
    ELSE ParseUnsigned(RequestedTimestampPart(requested_id_str))

\* mutant: the sequence is bumped whatever the timestamp
NewSequenceNumber_AlwaysBump(requested_id_str, last_item_id, new_timestamp) ==
    IF RequestedSequencePart(requested_id_str) = <<Star>>
    THEN IF last_item_id.some THEN LastSeqNum(last_item_id) + 1
         ELSE IF RequestedTimestampPart(requested_id_str) = <<Star>> THEN 0 ELSE 1
    ELSE ParseUnsigned(RequestedSequencePart(requested_id_str))

\* new_sequence_number; last_seq_num + 1 is the u64 sum of a build without
\* overflow checks, which wraps
NewSequenceNumber(requested_id_str, last_item_id, new_timestamp) ==
    IF RequestedSequencePart(requested_id_str) = <<Star>>
    THEN IF last_item_id.some
         THEN IF new_timestamp = LastMsTime(last_item_id)
              THEN (LastSeqNum(last_item_id) + 1) % SeqLimit
              ELSE 0
         ELSE IF RequestedTimestampPart(requested_id_str) = <<Star>>
              THEN 0
              ELSE 1
    ELSE ParseUnsigned(RequestedSequencePart(requested_id_str))

\* mutant: the 0-0 check is missing
IdIsZero_Never(new_timestamp, new_sequence_number) == FALSE

\* if new_timestamp == 0 && new_sequence_number == 0
IdIsZero(new_timestamp, new_sequence_number) ==
    new_timestamp = 0 /\ new_sequence_number = 0

\* mutant: the top-item check is missing
IdNotGreater_Never(last_item_id, new_timestamp, new_sequence_number) == FALSE

\* mutant: an id equal to the top item passes
IdNotGreater_Strict(last_item_id, new_timestamp, new_sequence_number) ==
    \/ last_item_id.some /\ new_timestamp < LastMsTime(last_item_id)
    \/ /\ new_timestamp = LastMsTime(last_item_id)
       /\ new_sequence_number < LastSeqNum(last_item_id)

\* if last_item_id.is_some() && new_timestamp < last_ms_time
\*     || (new_timestamp == last_ms_time && new_sequence_number <= last_seq_num)
IdNotGreater(last_item_id, new_timestamp, new_sequence_number) ==
    \/ last_item_id.some /\ new_timestamp < LastMsTime(last_item_id)
    \/ /\ new_timestamp = LastMsTime(last_item_id)
       /\ new_sequence_number <= LastSeqNum(last_item_id)

\* last_seq_num + 1 is evaluated and exceeds u64::MAX: a build with overflow
\* checks panics there ("attempt to add with overflow")
SequenceOverflows(requested_id_str, last_item_id, current_system_time_millis) ==
    LET ts == NewTimestamp(requested_id_str, current_system_time_millis)
    IN  /\ last_item_id.some
        /\ DashPos(last_item_id.v) # 0
        /\ LastMsTime(last_item_id) # ParseErr
        /\ LastSeqNum(last_item_id) # ParseErr
        /\ requested_id_str = <<Star>> \/ DashPos(requested_id_str) # 0
        /\ ts # ParseErr
        /\ RequestedSequencePart(requested_id_str) = <<Star>>
        /\ ts = LastMsTime(last_item_id)
        /\ LastSeqNum(last_item_id) + 1 >= SeqLimit

derive_new_stream_id(requested_id_str, last_item_id, current_system_time_millis) ==
    LET ts  == NewTimestamp(requested_id_str, current_system_time_millis)
        seq == NewSequenceNumber(requested_id_str, last_item_id, ts)
    IN  IF last_item_id.some /\ DashPos(last_item_id.v) = 0
        THEN Err(MsgInvalidLast, last_item_id.v)
        ELSE IF last_item_id.some /\ (LastMsTime(last_item_id) = ParseErr
                                      \/ LastSeqNum(last_item_id) = ParseErr)
        THEN Err(MsgParseInt, last_item_id.v)
        ELSE IF requested_id_str # <<Star>> /\ DashPos(requested_id_str) = 0
        THEN Err(MsgInvalidId, requested_id_str)
        ELSE IF ts = ParseErr
        THEN Err(MsgBadTimestamp, <<>>)
        ELSE IF seq = ParseErr
        THEN Err(MsgBadSequence, <<>>)
        ELSE IF IdIsZero(ts, seq)
        THEN Err(MsgIdZero, <<>>)
        ELSE IF IdNotGreater(last_item_id, ts, seq)
        THEN Err(MsgIdNotGreater, <<>>)
        ELSE Ok(FormatId(ts, seq))

----------------------------------------------------------------------------
(* Db values and the stream operations of src/db.rs *)

\* an absent Instant (Option::None, or no entry in Db.expirations)
NoTime == -1

NoValue == [type |-> "None", data |-> <<>>]
Atom(v) == [type |-> "Atom", data |-> <<v>>]
List(l) == [type |-> "List", data |-> l]
Stream(items) == [type |-> "Stream", data |-> items]

StreamItem(id, fv) == [id |-> id, values |-> fv]

\* Some(DbValue::Stream(stream_list)) = self.values.get(key)
IsStream(vals, key) == vals[key].type = "Stream"
IsList(vals, key) == vals[key].type = "List"

\* Db::xfirst / Db::xlast: Option<&StreamItem>
Db_xfirst(vals, key) ==
    IF IsStream(vals, key) /\ Len(vals[key].data) > 0
    THEN Some(vals[key].data[1]) ELSE None
Db_xlast(vals, key) ==
    IF IsStream(vals, key) /\ Len(vals[key].data) > 0
    THEN Some(vals[key].data[Len(vals[key].data)]) ELSE None

RECURSIVE BinarySearchLoop(_, _, _, _)
\* the while loop of core::slice::binary_search_by; base is 0-based
BinarySearchLoop(items, target, base, size) ==
    IF size > 1
    THEN LET half == size \div 2
             mid  == base + half
         IN  BinarySearchLoop(items, target,
                 IF StrCmp(items[mid + 1].id, target) = 1 THEN base ELSE mid,
                 size - half)
    ELSE base

\* stream_list.0.binary_search_by_key(&start, |stream_item| &stream_item.id):
\* Ok(index) or Err(insertion index), 0-based, by the order of the id strings
BinarySearchByKey(items, target) ==
    IF Len(items) = 0 THEN [found |-> FALSE, index |-> 0]
    ELSE LET base == BinarySearchLoop(items, target, 0, Len(items))
             c    == StrCmp(items[base + 1].id, target)
         IN  IF c = 0 THEN [found |-> TRUE, index |-> base]
             ELSE [found |-> FALSE, index |-> base + (IF c = -1 THEN 1 ELSE 0)]

\* Db::xread
Db_xread(vals, key, start) ==
    IF IsStream(vals, key)
    THEN LET search == BinarySearchByKey(vals[key].data, start)
             first_index == IF search.found THEN search.index + 1
                            ELSE IF search.index > 0 THEN search.index - 1 ELSE 0
         IN  SubSeq(vals[key].data, first_index + 1, Len(vals[key].data))
    ELSE <<>>

\* Db::xrange: Ok(slice), Err(DbError), or the panic of an inverted slice range
Db_xrange(vals, key, start, end) ==
    IF IsStream(vals, key)
    THEN LET first == BinarySearchByKey(vals[key].data, start)
             last  == BinarySearchByKey(vals[key].data, end)
         IN  IF ~first.found
             THEN [kind |-> "Err", items |-> <<>>, msg |-> "StreamStartIdNotFound"]
             ELSE IF ~last.found
             THEN [kind |-> "Err", items |-> <<>>, msg |-> "StreamEndIdNotFound"]
             ELSE IF first.index > last.index + 1
             THEN [kind |-> "Panic", items |-> <<>>, msg |-> "slice index"]
             ELSE [kind |-> "Ok", msg |-> "",
                   items |-> SubSeq(vals[key].data, first.index + 1, last.index + 1)]
    ELSE IF vals[key].type # "None"
    THEN [kind |-> "Err", items |-> <<>>, msg |-> "KeyIsNotStream"]
    ELSE [kind |-> "Err", items |-> <<>>, msg |-> "KeyNotFound"]

----------------------------------------------------------------------------
(* BlockingQueue and Db::xadd, src/db.rs *)

ChannelCapacity == 100

\* mpsc::Sender::try_send(..).is_ok(): the receiver is alive and the buffer has room
TrySendOk(ch, sender) == Len(ch[sender]) < ChannelCapacity

\* BlockedClient; blocked_since is written and never read, and is left out
BlockedClient(client_id, key, sender, start) ==
    [id |-> client_id, key |-> key, sender |-> sender, xread_start |-> start]

\* BlockingQueue::add_blocked_xread_client
add_blocked_xread_client(wc, key, start, sender, client_id) ==
    [wc EXCEPT ![key] = Append(@, BlockedClient(client_id, key, sender, start))]

\* VecDeque::retain
Retain(queue, Keep(_)) == SelectSeq(queue, Keep)

\* BlockingQueue::remove_blocked_xread_client
remove_blocked_xread_client(wc, client_id, key) ==
    LET Keep(client) == client.id # client_id
    IN  [wc EXCEPT ![key] = Retain(@, Keep)]

StreamNotification(key, item) == [key |-> key, item |-> item]

\* BlockingQueue::notify_xread_clients: the queue after queue.retain(..)
NotifyRetained(wc, ch, key) ==
    LET Keep(client) == TrySendOk(ch, client.sender)
    IN  [wc EXCEPT ![key] = Retain(@, Keep)]

\* BlockingQueue::notify_xread_clients: the channels after the try_send calls
NotifySent(wc, ch, key, item) ==
    [c \in DOMAIN ch |->
        IF (\E i \in 1..Len(wc[key]) : wc[key][i].sender = c) /\ TrySendOk(ch, c)
        THEN Append(ch[c], StreamNotification(key, item))
        ELSE ch[c]]

notify_xread_clients(db, key, item) ==
    [values |-> db.values,
     waiting_clients |-> NotifyRetained(db.waiting_clients, db.chan, key),
     chan |-> NotifySent(db.waiting_clients, db.chan, key, item)]

\* mutant: the record is pushed and nobody is notified
Db_xadd_NoNotify(db, key, id, fv) ==
    LET stream == IF db.values[key].type = "None" THEN Stream(<<>>) ELSE db.values[key]
    IN  IF stream.type = "Stream"
        THEN [db EXCEPT !.values[key] = Stream(Append(stream.data, StreamItem(id, fv)))]
        ELSE db

\* Db::xadd; db is the engine together with the channels its senders feed
Db_xadd(db, key, id, fv) ==
    LET stream == IF db.values[key].type = "None" THEN Stream(<<>>) ELSE db.values[key]
    IN  IF stream.type = "Stream"
        THEN notify_xread_clients(
                 [db EXCEPT !.values[key] = Stream(Append(stream.data, StreamItem(id, fv)))],
                 key, StreamItem(id, fv))
        ELSE db

----------------------------------------------------------------------------
(* The registry of src/db/blocking.rs, with waiters of two kinds *)

\* BlockedClient of blocking.rs; kind is the variant of ClientSender, sender
\* the task that holds the receiver
BlockingClient(client_id, key, kind, sender, xread_start) ==
    [id |-> client_id, key |-> key, kind |-> kind, sender |-> sender,
     xread_start |-> xread_start]

\* BlockingQueue::add_blocked_xread_client (blocking.rs)
Blocking_add_blocked_xread_client(wc, key, start, sender, client_id) ==
    [wc EXCEPT ![key] = Append(@, BlockingClient(client_id, key, "Stream", sender,
                                                 Some(start)))]

\* BlockingQueue::add_blocked_lpop_client
Blocking_add_blocked_lpop_client(wc, key, sender, client_id) ==
    [wc EXCEPT ![key] = Append(@, BlockingClient(client_id, key, "List", sender, None))]

\* mutant: the queue is cut at the waiter that is removed
Blocking_remove_blocked_client_Truncates(wc, client_id, key) ==
    LET Before(i) == \A j \in 1..i : wc[key][j].id # client_id
    IN  [wc EXCEPT ![key] = [i \in 1..Cardinality({n \in 1..Len(wc[key]) : Before(n)})
                                |-> wc[key][i]]]

\* BlockingQueue::remove_blocked_client; a key without queue and a key with an
\* empty queue are the same registry here
Blocking_remove_blocked_client(wc, client_id, key) ==
    LET Keep(client) == client.id # client_id
    IN  [wc EXCEPT ![key] = Retain(@, Keep)]

\* sender.try_send(..).is_ok() for a channel of the given capacity: the
\* receiver is alive and the buffer has room
BlockingTrySendOk(ch, alive, sender, capacity) ==
    sender \in alive /\ Len(ch[sender]) < capacity

\* mutant: the waiters of the other kind are dropped with the failed ones
BlockingNotifyLoop_DropsOtherKind(queue, ch, alive, capacity, kind, notification) ==
    LET Sent(client) == client.kind = kind
                        /\ BlockingTrySendOk(ch, alive, client.sender, capacity)
    IN  [queue |-> SelectSeq(queue, Sent),
         chan |-> [c \in DOMAIN ch |->
                     IF \E i \in 1..Len(queue) : queue[i].sender = c /\ Sent(queue[i])
                     THEN Append(ch[c], notification) ELSE ch[c]]]

RECURSIVE BlockingNotifyLoop(_, _, _, _, _, _)
\* for client in queue.drain(..): the waiters to retain and the channels after
\* the try_send calls to the waiters of the given kind
BlockingNotifyLoop(queue, ch, alive, capacity, kind, notification) ==
    IF Len(queue) = 0 THEN [queue |-> <<>>, chan |-> ch]
    ELSE LET client == Head(queue)
             sends == client.kind = kind
             ok == BlockingTrySendOk(ch, alive, client.sender, capacity)
             ch1 == IF sends /\ ok
                    THEN [ch EXCEPT ![client.sender] = Append(@, notification)]
                    ELSE ch
             rest == BlockingNotifyLoop(Tail(queue), ch1, alive, capacity, kind,
                                        notification)
         IN  [queue |-> IF sends /\ ~ok THEN rest.queue ELSE <<client>> \o rest.queue,
              chan |-> rest.chan]

ListNotification(key) == [key |-> key]

\* BlockingQueue::notify_lpop_clients: the registry and the channels afterwards
Blocking_notify_lpop_clients(wc, ch, alive, capacity, key) ==
    LET r == BlockingNotifyLoop(wc[key], ch, alive, capacity, "List",
                                ListNotification(key))
    IN  [waiting_clients |-> [wc EXCEPT ![key] = r.queue], chan |-> r.chan]

\* BlockingQueue::notify_xread_clients (blocking.rs)
Blocking_notify_xread_clients(wc, ch, alive, capacity, key, item) ==
    LET r == BlockingNotifyLoop(wc[key], ch, alive, capacity, "Stream",
                                StreamNotification(key, item))
    IN  [waiting_clients |-> [wc EXCEPT ![key] = r.queue], chan |-> r.chan]

----------------------------------------------------------------------------
(* list operations of src/db.rs *)

\* mutant: the values are put in front as one block, in input order
PushFrontAll_InInputOrder(list, vs) == vs \o list

RECURSIVE PushFrontAll(_, _)
\* for value in values.into_iter() { list.push_front(value) }
PushFrontAll(list, vs) ==
    IF Len(vs) = 0 THEN list ELSE PushFrontAll(<<Head(vs)>> \o list, Tail(vs))

\* Db::rpush: the values afterwards, and the returned length
Db_rpush(vals, key, vs) ==
    LET v0 == IF vals[key].type = "None" THEN List(<<>>) ELSE vals[key]
    IN  IF v0.type = "List"
        THEN [values |-> [vals EXCEPT ![key] = List(v0.data \o vs)],
              ret |-> Len(v0.data) + Len(vs)]
        ELSE [values |-> vals, ret |-> 0]

\* Db::lpush
Db_lpush(vals, key, vs) ==
    LET v0 == IF vals[key].type = "None" THEN List(<<>>) ELSE vals[key]
    IN  IF v0.type = "List"
        THEN [values |-> [vals EXCEPT ![key] = List(PushFrontAll(v0.data, vs))],
              ret |-> Len(v0.data) + Len(vs)]
        ELSE [values |-> vals, ret |-> 0]

Min(a, b) == IF a < b THEN a ELSE b

\* mutant: a list shorter than length is popped whole only when length allows,
\* and a request for more than the list holds pops nothing
Db_lpop_AllOrNothing(vals, key, length) ==
    IF IsList(vals, key) /\ Len(vals[key].data) >= length
    THEN [values |-> [vals EXCEPT ![key] =
                         List(SubSeq(vals[key].data, length + 1, Len(vals[key].data)))],
          ret |-> SubSeq(vals[key].data, 1, length)]
    ELSE [values |-> vals, ret |-> <<>>]

\* Db::lpop: the values afterwards, and the popped elements
Db_lpop(vals, key, length) ==
    IF IsList(vals, key) /\ Len(vals[key].data) > 0
    THEN LET n == Min(length, Len(vals[key].data))
         IN  [values |-> [vals EXCEPT ![key] =
                             List(SubSeq(vals[key].data, n + 1, Len(vals[key].data)))],
              ret |-> SubSeq(vals[key].data, 1, n)]
    ELSE [values |-> vals, ret |-> <<>>]

Max(a, b) == IF a > b THEN a ELSE b

\* Db::lrange: the elements returned (DbValue::List of them)
Db_lrange(vals, key, start, stop) ==
    IF IsList(vals, key)
    THEN LET list == vals[key].data
             length == Len(list)
             start1 == Max(IF start < 0 THEN length + start ELSE start, 0)
             stop1 == Max(IF stop < 0 THEN length + stop ELSE stop, 0)
         IN  IF start1 < length /\ start1 < stop1
             THEN SubSeq(list, start1 + 1, Min(stop1, length - 1) + 1)
             ELSE <<>>
    ELSE <<>>

----------------------------------------------------------------------------
(* Atoms and expirations, src/db.rs *)

\* Db::get: the value of the key, NoValue for None
Db_get(vals, key) == vals[key]

\* Db::insert
Db_insert(vals, key, value) == [vals EXCEPT ![key] = value]

\* Db::set_expiration: Instant::now() + Duration::from_millis(millis)
Db_set_expiration(exps, key, millis, instant_now) ==
    [exps EXCEPT ![key] = instant_now + millis]

\* mutant: no key ever counts as expired
Db_is_expired_Never(exps, key, instant_now) == FALSE

\* Db::is_expired
Db_is_expired(exps, key, instant_now) ==
    exps[key] # NoTime /\ instant_now >= exps[key]

\* Db::expire: both tables forget the key
Db_expire(db, key) ==
    [values |-> [db.values EXCEPT ![key] = NoValue],
     expirations |-> [db.expirations EXCEPT ![key] = NoTime]]

\* Db::llen
Db_llen(vals, key) == IF IsList(vals, key) THEN Len(vals[key].data) ELSE 0

----------------------------------------------------------------------------
(* Commands, responses and the inputs the clients draw from *)

\* Result<RespValue> of Command::execute; Pending while the command runs,
\* Panic when the task unwound instead of returning
Resp(kind, v) == [kind |-> kind, v |-> v]
Pending == Resp("Pending", <<>>)
Panic == Resp("Panic", <<>>)
SimpleString(str) == Resp("SimpleString", <<str>>)
NullArray == Resp("NullArray", <<>>)
NullBulkString == Resp("NullBulkString", <<>>)
BulkString(s) == Resp("BulkString", <<s>>)
Integer(n) == Resp("Integer", <<n>>)
Array(items) == Resp("Array", items)
ErrResp(m) == Resp("Err", <<m>>)

NoCommand == [name |-> "None"]

\* XreadStartId
StartLast == [last |-> TRUE, id |-> <<>>]
StartNormal(id) == [last |-> FALSE, id |-> id]
\* XreadStartId::to_str
StartToStr(start, last_id) == IF start.last THEN last_id ELSE start.id

\* XreadDuration, as parse_command builds it from the BLOCK argument
DurationNone == [kind |-> "None", ms |-> 0]
\* mutant: BLOCK 0 is a timeout of 0 milliseconds
XreadDurationOf_ZeroIsNormal(block_ms) == [kind |-> "Normal", ms |-> block_ms]

XreadDurationOf(block_ms) ==
    IF block_ms = 0 THEN [kind |-> "Inifnity", ms |-> 0]
    ELSE [kind |-> "Normal", ms |-> block_ms]

NoLocal == [start_id |-> <<>>, client_id |-> 0, end_time |-> NoTime,
            wake_at |-> NoTime, deadline |-> NoTime, probe_start_id |-> <<>>]

MsVals == (0..MaxMs) \cup {10}
ExplicitIds == {FormatId(ms, seq) : ms \in MsVals, seq \in 0..MaxSeq}
AutoSeqIds == {ToStr(ms) \o <<Dash, Star>> : ms \in MsVals}
MalformedIds == {ToStr(1)}
RequestedIds == {<<Star>>} \cup AutoSeqIds \cup ExplicitIds \cup MalformedIds
XreadStartsIssued == {StartLast} \cup {StartNormal(FormatId(ms, 0)) : ms \in 0..MaxMs}
XreadDurations == {DurationNone} \cup {XreadDurationOf(d) : d \in {0, 1}}
XrangeStarts == {None, Some(<<Dash>>)} \cup {Some(FormatId(ms, 0)) : ms \in 0..MaxMs}
XrangeEnds == {None, Some(<<Plus>>)} \cup {Some(FormatId(ms, MaxSeq)) : ms \in 0..MaxMs}
PushValues == {<<v>> : v \in ListVals} \cup {<<v, w>> : v \in ListVals, w \in ListVals}
BlpopTimeouts == {0, 5}
AtomVals == {"v1", "v2"}
ExpiryMillis == {None, Some(0), Some(2)}

WAITING_TIME_FOR_BPLOP_MILLI == 10

----------------------------------------------------------------------------
(* Initial state: Db::new(), every connection waiting for its first request *)

Init ==
    /\ values = [k \in Keys |-> NoValue]
    /\ expirations = [k \in Keys |-> NoTime]
    /\ waiting_clients = [k \in Keys |-> <<>>]
    /\ lock = NoOne
    /\ now = 0
    /\ pc = [c \in Clients |-> "idle"]
    /\ cmd = [c \in Clients |-> NoCommand]
    /\ resp = [c \in Clients |-> Pending]
    /\ local = [c \in Clients |-> NoLocal]
    /\ chan = [c \in Clients |-> <<>>]
    /\ uuid_next = 0

\* mutant: the next request of a connection is read while its BLPOP sleeps
Start_WhileBlocked(c, command, at) ==
    /\ pc[c] \in {"idle", "blpop_sleep"}
    /\ pc' = [pc EXCEPT ![c] = at]
    /\ cmd' = [cmd EXCEPT ![c] = command]
    /\ resp' = [resp EXCEPT ![c] = Pending]
    /\ UNCHANGED <<values, expirations, waiting_clients, lock, now, chan, uuid_next>>

\* the task reads a request and enters Command::execute
Start(c, command, at) ==
    /\ pc[c] = "idle"
    /\ pc' = [pc EXCEPT ![c] = at]
    /\ cmd' = [cmd EXCEPT ![c] = command]
    /\ resp' = [resp EXCEPT ![c] = Pending]
    /\ UNCHANGED <<values, expirations, waiting_clients, lock, now, chan, uuid_next>>

\* the task returns from Command::execute with result r (handle_conn, main.rs):
\* Ok(response) is written next, Err(e) ends the connection through `?`,
\* a panic unwinds the task
Finish(c, r) ==
    /\ pc' = [pc EXCEPT ![c] = IF r.kind = "Panic" THEN "panicked"
                               ELSE IF r.kind = "Err" THEN "closed"
                               ELSE "write"]
    /\ resp' = [resp EXCEPT ![c] = r]
    /\ local' = [local EXCEPT ![c] = NoLocal]
    /\ cmd' = [cmd EXCEPT ![c] = IF r.kind \in {"Panic", "Err"} THEN NoCommand ELSE @]

\* handler.write_value(response).await, then the loop reads the next request
WriteValue(c) ==
    /\ pc[c] = "write"
    /\ pc' = [pc EXCEPT ![c] = "idle"]
    /\ cmd' = [cmd EXCEPT ![c] = NoCommand]
    /\ resp' = [resp EXCEPT ![c] = Pending]
    /\ UNCHANGED <<values, expirations, waiting_clients, lock, now, local, chan, uuid_next>>

\* positions at which the task awaits db.lock()
LockPcs == {"xadd", "xrange", "xread_probe", "xread_resolve", "xread_register",
            "xread_requery", "rpush", "lpush", "lpop", "blpop_try",
            "set", "get", "type", "llen", "lrange"}

\* db.lock().await completes
Acquire(c) ==
    /\ pc[c] \in LockPcs
    /\ lock = NoOne
    /\ lock' = c
    /\ UNCHANGED <<values, expirations, waiting_clients, now, pc, cmd, resp, local, chan, uuid_next>>

\* the monotonic clock advances
Tick(limit) ==
    /\ now < limit
    /\ now' = now + 1
    /\ UNCHANGED <<values, expirations, waiting_clients, lock, pc, cmd, resp, local, chan, uuid_next>>

\* An Instant held by the program is only ever compared with the clock, so the
\* clock can run forever in a finite model: up to `limit` the clock itself
\* advances; from there on one more millisecond moves every Instant that has not
\* passed yet one millisecond closer instead (an Instant already in the past stays
\* in the past).
Rebase(instant) ==
    IF instant = NoTime \/ instant < now THEN instant ELSE instant - 1

Elapse(limit) ==
    /\ IF now < limit
       THEN /\ now' = now + 1
            /\ UNCHANGED <<expirations, local>>
       ELSE /\ UNCHANGED now
            /\ expirations' = [k \in Keys |-> Rebase(expirations[k])]
            /\ local' = [c \in Clients |->
                            [local[c] EXCEPT !.end_time = Rebase(@),
                                             !.wake_at = Rebase(@),
                                             !.deadline = Rebase(@)]]
    /\ UNCHANGED <<values, waiting_clients, lock, pc, cmd, resp, chan, uuid_next>>

----------------------------------------------------------------------------
(* XADD, src/commands.rs Command::execute *)

PendingXadds(key) == Cardinality({c \in Clients : pc[c] = "xadd" /\ cmd[c].key = key})
StreamLen(key) == IF IsStream(values, key) THEN Len(values[key].data) ELSE 0

\* XADD on one of keys is read while the stream stays within MaxStreamLen
IssueXaddAt(c, keys, ids) ==
    \E key \in keys, id \in ids, fv \in FieldMaps :
        /\ StreamLen(key) + PendingXadds(key) < MaxStreamLen
        /\ Start(c, [name |-> "Xadd", key |-> key, id |-> id, field_value_pairs |-> fv], "xadd")
        /\ UNCHANGED local

IssueXadd(c, ids) == IssueXaddAt(c, StreamKeys, ids)

\* last_item_id_option
LastItemIdOption(vals, key) ==
    IF Db_xlast(vals, key).some THEN Some(Db_xlast(vals, key).v.id) ELSE None

\* mutant: the record is appended under the requested id before the id is judged
XaddResult_StoresRejected(db, command, current_system_time_millis) ==
    LET new_id == derive_new_stream_id(command.id, LastItemIdOption(db.values, command.key),
                                       current_system_time_millis)
    IN  IF new_id.ok
        THEN [db |-> Db_xadd(db, command.key, new_id.v, command.field_value_pairs),
              resp |-> BulkString(new_id.v)]
        ELSE [db |-> Db_xadd(db, command.key, command.id, command.field_value_pairs),
              resp |-> ErrResp(new_id.msg)]

\* the critical section of XADD for a given reading of the system clock
XaddResult(db, command, current_system_time_millis) ==
    LET new_id == derive_new_stream_id(command.id, LastItemIdOption(db.values, command.key),
                                       current_system_time_millis)
    IN  IF new_id.ok
        THEN [db |-> Db_xadd(db, command.key, new_id.v, command.field_value_pairs),
              resp |-> BulkString(new_id.v)]
        ELSE [db |-> db, resp |-> ErrResp(new_id.msg)]

\* the build decides what an overflow of last_seq_num + 1 does: the sum wraps, or
\* the task panics before anything is stored
XaddBody(c) ==
    /\ pc[c] = "xadd"
    /\ lock = c
    /\ \E t \in MsVals :
         LET r == XaddResult([values |-> values, waiting_clients |-> waiting_clients,
                              chan |-> chan], cmd[c], t)
         IN  \/ /\ values' = r.db.values
                /\ waiting_clients' = r.db.waiting_clients
                /\ chan' = r.db.chan
                /\ Finish(c, r.resp)
             \/ /\ SequenceOverflows(cmd[c].id, LastItemIdOption(values, cmd[c].key), t)
                /\ Finish(c, Panic)
                /\ UNCHANGED <<values, waiting_clients, chan>>
    /\ lock' = NoOne
    /\ UNCHANGED <<expirations, now, uuid_next>>

----------------------------------------------------------------------------
(* XRANGE, src/commands.rs Command::execute *)

IssueXrange(c) ==
    \E key \in StreamKeys, start \in XrangeStarts, end \in XrangeEnds :
        /\ Start(c, [name |-> "Xrange", key |-> key, start |-> start, end |-> end], "xrange")
        /\ UNCHANGED local

\* start_id / end_id: None when db_g.xfirst(&key).unwrap() / xlast(..).unwrap() panics
XrangeStartId(vals, key, start_opt) ==
    IF ~start_opt.some \/ start_opt.v = <<Dash>>
    THEN (IF Db_xfirst(vals, key).some THEN Some(Db_xfirst(vals, key).v.id) ELSE None)
    ELSE start_opt
XrangeEndId(vals, key, end_opt) ==
    IF ~end_opt.some \/ end_opt.v = <<Plus>>
    THEN (IF Db_xlast(vals, key).some THEN Some(Db_xlast(vals, key).v.id) ELSE None)
    ELSE end_opt

XrangeResult(vals, command) ==
    LET start_id == XrangeStartId(vals, command.key, command.start)
        end_id   == XrangeEndId(vals, command.key, command.end)
    IN  IF ~start_id.some \/ ~end_id.some THEN Panic
        ELSE LET streams == Db_xrange(vals, command.key, start_id.v, end_id.v)
             IN  IF streams.kind = "Panic" THEN Panic
                 ELSE IF streams.kind = "Err" THEN ErrResp(streams.msg)
                 ELSE Array(streams.items)

XrangeBody(c) ==
    /\ pc[c] = "xrange"
    /\ lock = c
    /\ Finish(c, XrangeResult(values, cmd[c]))
    /\ lock' = NoOne
    /\ UNCHANGED <<values, expirations, waiting_clients, now, chan, uuid_next>>

----------------------------------------------------------------------------
(* XREAD, src/commands.rs Command::execute *)

IssueXread(c, starts) ==
    \E key \in StreamKeys, start \in starts, duration \in XreadDurations :
        /\ duration.kind # "None" => uuid_next < MaxWaiters
        /\ Start(c, [name |-> "Xread", streams |-> <<[key |-> key, start |-> start]>>,
                     duration |-> duration], "xread_probe")
        /\ UNCHANGED local

\* the STREAMS clauses of one or two different keys, each with its start
StreamLists(keys, starts) ==
    {<<[key |-> k, start |-> st]>> : k \in keys, st \in starts}
    \cup {streams \in {<<[key |-> k1, start |-> st1], [key |-> k2, start |-> st2]>> :
                           k1 \in keys, k2 \in keys, st1 \in starts, st2 \in starts} :
             streams[1].key # streams[2].key}

\* XREAD without BLOCK over one or two streams
IssueXreadStreams(c, keys, starts) ==
    \E streams \in StreamLists(keys, starts) :
        /\ Start(c, [name |-> "Xread", streams |-> streams, duration |-> DurationNone],
                 "xread_probe")
        /\ UNCHANGED local

\* XREAD BLOCK over one or two streams
IssueXreadBlock(c, keys, starts) ==
    \E streams \in StreamLists(keys, starts), duration \in XreadDurations \ {DurationNone} :
        /\ uuid_next < MaxWaiters
        /\ Start(c, [name |-> "Xread", streams |-> streams, duration |-> duration],
                 "xread_probe")
        /\ UNCHANGED local

\* line 303: start_id of the closure of the probe, for one (key, start)
ProbeStartId(vals, stream) == StartToStr(stream.start, Db_xlast(vals, stream.key).v.id)

\* the closure of filter_map for one (key, start): the stream's entry, <<>> for None
XreadEntry(vals, stream) ==
    LET start_id == StartToStr(stream.start, Db_xlast(vals, stream.key).v.id)
        stream_items == Db_xread(vals, stream.key, start_id)
    IN  IF Len(stream_items) > 0 THEN <<[key |-> stream.key, items |-> stream_items]>>
        ELSE <<>>

RECURSIVE InitialStreamResponses(_, _)
InitialStreamResponses(vals, streams) ==
    IF Len(streams) = 0 THEN <<>>
    ELSE XreadEntry(vals, Head(streams)) \o InitialStreamResponses(vals, Tail(streams))

\* db_g.xlast(key).unwrap() panics for some listed key
XreadUnwrapPanics(vals, streams) ==
    \E i \in 1..Len(streams) : ~Db_xlast(vals, streams[i].key).some

\* lines 297-327: the initial probe under the lock
XreadProbe(c) ==
    /\ pc[c] = "xread_probe"
    /\ lock = c
    /\ lock' = NoOne
    /\ IF XreadUnwrapPanics(values, cmd[c].streams)
       THEN Finish(c, Panic) /\ UNCHANGED chan
       ELSE LET initial == InitialStreamResponses(values, cmd[c].streams)
            IN  IF Len(initial) > 0
                THEN Finish(c, Array(initial)) /\ UNCHANGED chan
                ELSE IF cmd[c].duration.kind = "None"
                THEN Finish(c, NullArray) /\ UNCHANGED chan
                ELSE /\ pc' = [pc EXCEPT ![c] = "xread_resolve"]
                     /\ chan' = [chan EXCEPT ![c] = <<>>]
                     /\ local' = [local EXCEPT ![c].probe_start_id =
                                     ProbeStartId(values, cmd[c].streams[1])]
                     /\ UNCHANGED <<cmd, resp>>
    /\ UNCHANGED <<values, expirations, waiting_clients, now, uuid_next>>

\* lines 330-335: start_id is resolved under a second lock
XreadResolve(c) ==
    /\ pc[c] = "xread_resolve"
    /\ lock = c
    /\ lock' = NoOne
    /\ LET stream == cmd[c].streams[1]
       IN  IF ~Db_xlast(values, stream.key).some
           THEN Finish(c, Panic)
           ELSE /\ local' = [local EXCEPT ![c].start_id =
                                StartToStr(stream.start, Db_xlast(values, stream.key).v.id)]
                /\ pc' = [pc EXCEPT ![c] = "xread_register"]
                /\ UNCHANGED <<cmd, resp>>
    /\ UNCHANGED <<values, expirations, waiting_clients, now, chan, uuid_next>>

\* mutant: the guard taken to register the waiter is still held inside select!
XreadRegister_KeepsGuard(c) ==
    /\ pc[c] = "xread_register"
    /\ lock = c
    /\ UNCHANGED lock
    /\ waiting_clients' = add_blocked_xread_client(waiting_clients, cmd[c].streams[1].key,
                              local[c].start_id, c, uuid_next + 1)
    /\ uuid_next' = uuid_next + 1
    /\ local' = [local EXCEPT ![c].client_id = uuid_next + 1,
                              ![c].deadline = IF cmd[c].duration.kind = "Normal"
                                              THEN now + cmd[c].duration.ms ELSE NoTime]
    /\ pc' = [pc EXCEPT ![c] = "xread_select"]
    /\ UNCHANGED <<values, expirations, now, cmd, resp, chan>>

\* mutant: the waiter is registered on the last key listed
XreadRegister_LastKey(c) ==
    /\ pc[c] = "xread_register"
    /\ lock = c
    /\ lock' = NoOne
    /\ waiting_clients' = add_blocked_xread_client(waiting_clients,
                              cmd[c].streams[Len(cmd[c].streams)].key,
                              local[c].start_id, c, uuid_next + 1)
    /\ uuid_next' = uuid_next + 1
    /\ local' = [local EXCEPT ![c].client_id = uuid_next + 1,
                              ![c].deadline = IF cmd[c].duration.kind = "Normal"
                                              THEN now + cmd[c].duration.ms ELSE NoTime]
    /\ pc' = [pc EXCEPT ![c] = "xread_select"]
    /\ UNCHANGED <<values, expirations, now, cmd, resp, chan>>

\* lines 337-357: the waiter is registered under a third lock, then select! starts
XreadRegister(c) ==
    /\ pc[c] = "xread_register"
    /\ lock = c
    /\ lock' = NoOne
    /\ waiting_clients' = add_blocked_xread_client(waiting_clients, cmd[c].streams[1].key,
                              local[c].start_id, c, uuid_next + 1)
    /\ uuid_next' = uuid_next + 1
    /\ local' = [local EXCEPT ![c].client_id = uuid_next + 1,
                              ![c].deadline = IF cmd[c].duration.kind = "Normal"
                                              THEN now + cmd[c].duration.ms ELSE NoTime]
    /\ pc' = [pc EXCEPT ![c] = "xread_select"]
    /\ UNCHANGED <<values, expirations, now, cmd, resp, chan>>

\* line 361: Some(_notification) = receiver.recv()
XreadRecv(c) ==
    /\ pc[c] = "xread_select"
    /\ Len(chan[c]) > 0
    /\ chan' = [chan EXCEPT ![c] = Tail(@)]
    /\ pc' = [pc EXCEPT ![c] = "xread_requery"]
    /\ UNCHANGED <<values, expirations, waiting_clients, lock, now, cmd, resp, local, uuid_next>>

\* lines 348-353: tokio::time::sleep(remaining_timeout) completes
XreadTimeout(c) ==
    /\ pc[c] = "xread_select"
    /\ local[c].deadline # NoTime
    /\ now >= local[c].deadline
    /\ pc' = [pc EXCEPT ![c] = "xread_requery"]
    /\ UNCHANGED <<values, expirations, waiting_clients, lock, now, cmd, resp, local, chan, uuid_next>>

\* mutant: a command whose timeout has passed answers null-array unread
XreadRequery_TimeoutIsNull(c) ==
    /\ pc[c] = "xread_requery"
    /\ lock = c
    /\ lock' = NoOne
    /\ LET key == cmd[c].streams[1].key
           stream_items == Db_xread(values, key, local[c].start_id)
       IN  /\ waiting_clients' = remove_blocked_xread_client(waiting_clients,
                                     local[c].client_id, key)
           /\ Finish(c, IF Len(stream_items) > 0
                           /\ ~(local[c].deadline # NoTime /\ now >= local[c].deadline)
                        THEN Array(<<[key |-> key, items |-> stream_items]>>)
                        ELSE NullArray)
    /\ chan' = [chan EXCEPT ![c] = <<>>]
    /\ UNCHANGED <<values, expirations, now, uuid_next>>

\* mutant: the command answers and leaves its waiter in the registry
XreadRequery_KeepsWaiter(c) ==
    /\ pc[c] = "xread_requery"
    /\ lock = c
    /\ lock' = NoOne
    /\ LET key == cmd[c].streams[1].key
           stream_items == Db_xread(values, key, local[c].start_id)
       IN  /\ UNCHANGED waiting_clients
           /\ Finish(c, IF Len(stream_items) > 0
                        THEN Array(<<[key |-> key, items |-> stream_items]>>)
                        ELSE NullArray)
    /\ chan' = [chan EXCEPT ![c] = <<>>]
    /\ UNCHANGED <<values, expirations, now, uuid_next>>

\* lines 365-381: after the wait the waiter is removed and the stream is read again
XreadRequery(c) ==
    /\ pc[c] = "xread_requery"
    /\ lock = c
    /\ lock' = NoOne
    /\ LET key == cmd[c].streams[1].key
           stream_items == Db_xread(values, key, local[c].start_id)
       IN  /\ waiting_clients' = remove_blocked_xread_client(waiting_clients,
                                     local[c].client_id, key)
           /\ Finish(c, IF Len(stream_items) > 0
                        THEN Array(<<[key |-> key, items |-> stream_items]>>)
                        ELSE NullArray)
    /\ chan' = [chan EXCEPT ![c] = <<>>]
    /\ UNCHANGED <<values, expirations, now, uuid_next>>

----------------------------------------------------------------------------
(* RPUSH, LPUSH, LPOP and BLPOP, src/commands.rs Command::execute *)

ListLen(key) == IF IsList(values, key) THEN Len(values[key].data) ELSE 0
PendingPushed(key) ==
    LET pushing == {c \in Clients : pc[c] \in {"rpush", "lpush"} /\ cmd[c].key = key}
    IN  IF pushing = {} THEN 0 ELSE 2 * Cardinality(pushing)

\* RPUSH is read while the list and the pushes under way stay within limit
IssueRpushUpTo(c, limit) ==
    \E key \in ListKeys, vs \in PushValues :
        /\ ListLen(key) + PendingPushed(key) + Len(vs) <= limit
        /\ Start(c, [name |-> "Rpush", key |-> key, values |-> vs], "rpush")
        /\ UNCHANGED local

IssueRpush(c) == IssueRpushUpTo(c, MaxListLen)

IssueLpushUpTo(c, limit) ==
    \E key \in ListKeys, vs \in PushValues :
        /\ ListLen(key) + PendingPushed(key) + Len(vs) <= limit
        /\ Start(c, [name |-> "Lpush", key |-> key, values |-> vs], "lpush")
        /\ UNCHANGED local

IssueLpush(c) == IssueLpushUpTo(c, MaxListLen)

RpushBody(c) ==
    /\ pc[c] = "rpush"
    /\ lock = c
    /\ lock' = NoOne
    /\ values' = Db_rpush(values, cmd[c].key, cmd[c].values).values
    /\ Finish(c, Integer(Db_rpush(values, cmd[c].key, cmd[c].values).ret))
    /\ UNCHANGED <<expirations, waiting_clients, now, chan, uuid_next>>

LpushBody(c) ==
    /\ pc[c] = "lpush"
    /\ lock = c
    /\ lock' = NoOne
    /\ values' = Db_lpush(values, cmd[c].key, cmd[c].values).values
    /\ Finish(c, Integer(Db_lpush(values, cmd[c].key, cmd[c].values).ret))
    /\ UNCHANGED <<expirations, waiting_clients, now, chan, uuid_next>>

IssueLpop(c) ==
    \E key \in ListKeys, count \in 0..2 :
        /\ Start(c, [name |-> "Lpop", key |-> key, count |-> count], "lpop")
        /\ UNCHANGED local

\* args.get(1).unwrap_or(1): the count argument of the request, when it has one
LpopCount(arg) == IF arg.some THEN arg.v ELSE 1

LpopArgs == {None} \cup {Some(n) : n \in 0..MaxOpsLen}

\* LPOP as it is read from the connection: arg is the optional count argument
IssueLpopArgs(c) ==
    \E key \in ListKeys, arg \in LpopArgs :
        /\ Start(c, [name |-> "Lpop", key |-> key, count |-> LpopCount(arg),
                     arg |-> arg], "lpop")
        /\ UNCHANGED local

\* the response of LPOP for the popped elements
LpopResponse(poped_list) ==
    IF Len(poped_list) = 0 THEN NullBulkString
    ELSE IF Len(poped_list) = 1 THEN BulkString(poped_list[1])
    ELSE Array(poped_list)

LpopBody(c) ==
    /\ pc[c] = "lpop"
    /\ lock = c
    /\ lock' = NoOne
    /\ values' = Db_lpop(values, cmd[c].key, cmd[c].count).values
    /\ Finish(c, LpopResponse(Db_lpop(values, cmd[c].key, cmd[c].count).ret))
    /\ UNCHANGED <<expirations, waiting_clients, now, chan, uuid_next>>

LrangeIndices == (0 - MaxIndex)..MaxIndex

IssueLrange(c) ==
    \E key \in ListKeys, start \in LrangeIndices, stop \in LrangeIndices :
        /\ Start(c, [name |-> "Lrange", key |-> key, start |-> start, stop |-> stop],
                 "lrange")
        /\ UNCHANGED local

LrangeBody(c) ==
    /\ pc[c] = "lrange"
    /\ lock = c
    /\ lock' = NoOne
    /\ Finish(c, Array(Db_lrange(values, cmd[c].key, cmd[c].start, cmd[c].stop)))
    /\ UNCHANGED <<values, expirations, waiting_clients, now, chan, uuid_next>>

\* the errors of parse_command for the requests it does not accept
ParseErrors == {MsgUnknownCommand, MsgLpopNoKey}

\* a request that parse_command rejects: handle_conn returns the error through
\* `?` before any command runs
RejectRequest(c) ==
    \E m \in ParseErrors :
        /\ pc[c] = "idle"
        /\ Finish(c, ErrResp(m))
        /\ UNCHANGED <<values, expirations, waiting_clients, lock, now, chan, uuid_next>>

\* mutant: a timeout of 0 is a deadline like any other
BlpopEndTime_ZeroIsDeadline(timeout_ms, instant_now) == instant_now + timeout_ms

\* end_time: None for a timeout of 0, else Instant::now() + timeout
BlpopEndTime(timeout_ms, instant_now) ==
    IF timeout_ms = 0 THEN NoTime ELSE instant_now + timeout_ms

IssueBlpop(c) ==
    \E key \in ListKeys, timeout_ms \in BlpopTimeouts :
        /\ Start(c, [name |-> "Blpop", key |-> key, timeout |-> timeout_ms], "blpop_try")
        /\ local' = [local EXCEPT ![c].end_time = BlpopEndTime(timeout_ms, now)]

\* positions of a task inside the loop of BLPOP
BlpopPcs == {"blpop_try", "blpop_check", "blpop_sleep"}

\* mutant: the element answered stays at the head of the list
BlpopTry_LeavesElement(c) ==
    /\ pc[c] = "blpop_try"
    /\ lock = c
    /\ lock' = NoOne
    /\ LET results == Db_lpop(values, cmd[c].key, 1)
       IN  IF Len(results.ret) > 0
           THEN /\ UNCHANGED values
                /\ Finish(c, Array(<<cmd[c].key>> \o results.ret))
           ELSE /\ UNCHANGED values
                /\ pc' = [pc EXCEPT ![c] = "blpop_check"]
                /\ UNCHANGED <<cmd, resp, local>>
    /\ UNCHANGED <<expirations, waiting_clients, now, chan, uuid_next>>

\* lines 148-158: one turn of the loop takes the lock, pops, and drops the guard
BlpopTry(c) ==
    /\ pc[c] = "blpop_try"
    /\ lock = c
    /\ lock' = NoOne
    /\ LET results == Db_lpop(values, cmd[c].key, 1)
       IN  IF Len(results.ret) > 0
           THEN /\ values' = results.values
                /\ Finish(c, Array(<<cmd[c].key>> \o results.ret))
           ELSE /\ UNCHANGED values
                /\ pc' = [pc EXCEPT ![c] = "blpop_check"]
                /\ UNCHANGED <<cmd, resp, local>>
    /\ UNCHANGED <<expirations, waiting_clients, now, chan, uuid_next>>

\* mutant: the deadline counts as passed as soon as there is one
BlpopDeadlinePassed_Always(end_time, instant_now) == end_time # NoTime

\* lines 160-161: if let Some(end) = end_time && Instant::now() > end
BlpopDeadlinePassed(end_time, instant_now) ==
    end_time # NoTime /\ instant_now > end_time

\* lines 160-165: with the lock released the clock is read; the command answers
\* null-array past the deadline, otherwise the sleep of one polling period starts
BlpopCheck(c) ==
    /\ pc[c] = "blpop_check"
    /\ IF BlpopDeadlinePassed(local[c].end_time, now)
       THEN Finish(c, NullArray)
       ELSE /\ pc' = [pc EXCEPT ![c] = "blpop_sleep"]
            /\ local' = [local EXCEPT ![c].wake_at = now + WAITING_TIME_FOR_BPLOP_MILLI]
            /\ UNCHANGED <<cmd, resp>>
    /\ UNCHANGED <<values, expirations, waiting_clients, lock, now, chan, uuid_next>>

\* time::sleep(WAITING_TIME_FOR_BPLOP_MILLI) completes
BlpopWake(c) ==
    /\ pc[c] = "blpop_sleep"
    /\ now >= local[c].wake_at
    /\ pc' = [pc EXCEPT ![c] = "blpop_try"]
    /\ UNCHANGED <<values, expirations, waiting_clients, lock, now, cmd, resp, local, chan, uuid_next>>

----------------------------------------------------------------------------
(* SET, GET, TYPE and LLEN, src/commands.rs Command::execute *)

IssueSet(c, keys) ==
    \E key \in keys, value \in AtomVals, expiry_millis \in ExpiryMillis :
        /\ Start(c, [name |-> "Set", key |-> key, value |-> value,
                     expiry_millis |-> expiry_millis], "set")
        /\ UNCHANGED local

\* lines 110-115: set_expiration when PX was given, then insert
SetBody(c) ==
    /\ pc[c] = "set"
    /\ lock = c
    /\ lock' = NoOne
    /\ expirations' = IF cmd[c].expiry_millis.some
                      THEN Db_set_expiration(expirations, cmd[c].key,
                                             cmd[c].expiry_millis.v, now)
                      ELSE expirations
    /\ values' = Db_insert(values, cmd[c].key, Atom(cmd[c].value))
    /\ Finish(c, SimpleString("OK"))
    /\ UNCHANGED <<waiting_clients, now, chan, uuid_next>>

IssueGet(c, keys) ==
    \E key \in keys :
        /\ Start(c, [name |-> "Get", key |-> key], "get")
        /\ UNCHANGED local

\* lines 183-190: the response of GET for (value, is_expired)
GetResponse(value, is_expired) ==
    IF value.type = "Atom" /\ ~is_expired THEN BulkString(value.data[1])
    ELSE NullBulkString

\* lines 173-181: is_expired, get, and expire when expired, under one guard
GetBody(c) ==
    /\ pc[c] = "get"
    /\ lock = c
    /\ lock' = NoOne
    /\ LET is_expired == Db_is_expired(expirations, cmd[c].key, now)
           value == Db_get(values, cmd[c].key)
           after == IF is_expired
                    THEN Db_expire([values |-> values, expirations |-> expirations],
                                   cmd[c].key)
                    ELSE [values |-> values, expirations |-> expirations]
       IN  /\ values' = after.values
           /\ expirations' = after.expirations
           /\ Finish(c, GetResponse(value, is_expired))
    /\ UNCHANGED <<waiting_clients, now, chan, uuid_next>>

IssueType(c, keys) ==
    \E key \in keys :
        /\ Start(c, [name |-> "Type", key |-> key], "type")
        /\ UNCHANGED local

\* mutant: only atoms and lists have a type name
TypeResponse_StreamIsNone(result) ==
    IF result.type = "Atom" THEN SimpleString("string")
    ELSE IF result.type = "List" THEN SimpleString("list")
    ELSE SimpleString("none")

\* lines 204-212: the response of TYPE for the value of the key
TypeResponse(result) ==
    IF result.type = "Atom" THEN SimpleString("string")
    ELSE IF result.type = "List" THEN SimpleString("list")
    ELSE IF result.type = "Stream" THEN SimpleString("stream")
    ELSE SimpleString("none")

TypeBody(c) ==
    /\ pc[c] = "type"
    /\ lock = c
    /\ lock' = NoOne
    /\ Finish(c, TypeResponse(Db_get(values, cmd[c].key)))
    /\ UNCHANGED <<values, expirations, waiting_clients, now, chan, uuid_next>>

IssueLlen(c, keys) ==
    \E key \in keys :
        /\ Start(c, [name |-> "Llen", key |-> key], "llen")
        /\ UNCHANGED local

LlenBody(c) ==
    /\ pc[c] = "llen"
    /\ lock = c
    /\ lock' = NoOne
    /\ Finish(c, Integer(Db_llen(values, cmd[c].key)))
    /\ UNCHANGED <<values, expirations, waiting_clients, now, chan, uuid_next>>

----------------------------------------------------------------------------
(* The operations of the registry of src/db/blocking.rs, applied by tasks
   that park a waiter of their own and cancel it *)

\* the tasks whose receiver is alive
Alive == {c \in Clients : pc[c] = "parked"}

\* a task creates a channel and parks a waiter of the given kind on a key
Park(c) ==
    \E key \in Keys, kind \in {"Stream", "List"} :
        /\ pc[c] = "idle"
        /\ uuid_next' = uuid_next + 1
        /\ waiting_clients' =
              IF kind = "Stream"
              THEN Blocking_add_blocked_xread_client(waiting_clients, key,
                                                     FormatId(0, 0), c, uuid_next + 1)
              ELSE Blocking_add_blocked_lpop_client(waiting_clients, key, c,
                                                    uuid_next + 1)
        /\ pc' = [pc EXCEPT ![c] = "parked"]
        /\ cmd' = [cmd EXCEPT ![c] = [name |-> "Park", key |-> key, kind |-> kind]]
        /\ local' = [local EXCEPT ![c].client_id = uuid_next + 1]
        /\ chan' = [chan EXCEPT ![c] = <<>>]
        /\ UNCHANGED <<values, expirations, lock, now, resp>>

\* the task cancels its waiter with remove_blocked_client, a first time or again,
\* and drops its receiver
Cancel(c) ==
    /\ pc[c] \in {"parked", "left"}
    /\ waiting_clients' = Blocking_remove_blocked_client(waiting_clients,
                              local[c].client_id, cmd[c].key)
    /\ pc' = [pc EXCEPT ![c] = "left"]
    /\ UNCHANGED <<values, expirations, lock, now, cmd, resp, local, chan, uuid_next>>

\* the same with remove_blocked_xread_client of db.rs
CancelXread(c) ==
    /\ pc[c] \in {"parked", "left"}
    /\ waiting_clients' = remove_blocked_xread_client(waiting_clients,
                              local[c].client_id, cmd[c].key)
    /\ pc' = [pc EXCEPT ![c] = "left"]
    /\ UNCHANGED <<values, expirations, lock, now, cmd, resp, local, chan, uuid_next>>

\* the task is gone and its receiver dropped while its waiter is registered
DropReceiver(c) ==
    /\ pc[c] = "parked"
    /\ pc' = [pc EXCEPT ![c] = "gone"]
    /\ UNCHANGED <<values, expirations, waiting_clients, lock, now, cmd, resp, local,
                   chan, uuid_next>>

NotifyLpop(key) ==
    LET r == Blocking_notify_lpop_clients(waiting_clients, chan, Alive, SmallCapacity, key)
    IN  /\ waiting_clients' = r.waiting_clients
        /\ chan' = r.chan
        /\ r.waiting_clients # waiting_clients \/ r.chan # chan
        /\ UNCHANGED <<values, expirations, lock, now, pc, cmd, resp, local, uuid_next>>

NotifyXread(key) ==
    LET r == Blocking_notify_xread_clients(waiting_clients, chan, Alive, SmallCapacity,
                                           key, StreamItem(FormatId(0, 1), "f"))
    IN  /\ waiting_clients' = r.waiting_clients
        /\ chan' = r.chan
        /\ r.waiting_clients # waiting_clients \/ r.chan # chan
        /\ UNCHANGED <<values, expirations, lock, now, pc, cmd, resp, local, uuid_next>>

----------------------------------------------------------------------------
(* Workloads *)

\* producers only: every client issues XADD with every form of id
NextXadd ==
    \/ \E c \in Peers : IssueXadd(c, RequestedIds)
    \/ \E c \in Peers : Acquire(c)
    \/ \E c \in Peers : XaddBody(c)
    \/ \E c \in Peers : WriteValue(c)

SpecXadd == Init /\ [][NextXadd]_vars

\* producers and readers: every client issues XADD and XREAD, blocking or not
MaxStreamTime == 1

NextStream ==
    \/ \E c \in Peers : IssueXadd(c, ExplicitIds)
    \/ \E c \in Peers : IssueXread(c, XreadStartsIssued)
    \/ \E c \in Peers : Acquire(c)
    \/ \E c \in Peers : XaddBody(c)
    \/ \E c \in Peers : XreadProbe(c)
    \/ \E c \in Peers : XreadResolve(c)
    \/ \E c \in Peers : XreadRegister(c)
    \/ \E c \in Peers : XreadRecv(c)
    \/ \E c \in Peers : XreadTimeout(c)
    \/ \E c \in Peers : XreadRequery(c)
    \/ \E c \in Peers : WriteValue(c)
    \/ Tick(MaxStreamTime)

SpecStream == Init /\ [][NextStream]_vars

\* producers and range readers
NextRange ==
    \/ \E c \in Peers : IssueXadd(c, ExplicitIds)
    \/ \E c \in Peers : IssueXrange(c)
    \/ \E c \in Peers : Acquire(c)
    \/ \E c \in Peers : XaddBody(c)
    \/ \E c \in Peers : XrangeBody(c)
    \/ \E c \in Peers : WriteValue(c)

SpecRange == Init /\ [][NextRange]_vars

\* list producers and consumers, blocking or not
NextList ==
    \/ \E c \in Peers : IssueRpush(c)
    \/ \E c \in Peers : IssueLpush(c)
    \/ \E c \in Peers : IssueLpop(c)
    \/ \E c \in Peers : IssueBlpop(c)
    \/ \E c \in Peers : Acquire(c)
    \/ \E c \in Peers : RpushBody(c)
    \/ \E c \in Peers : LpushBody(c)
    \/ \E c \in Peers : LpopBody(c)
    \/ \E c \in Peers : BlpopTry(c)
    \/ \E c \in Peers : BlpopCheck(c)
    \/ \E c \in Peers : BlpopWake(c)
    \/ \E c \in Peers : WriteValue(c)
    \/ Tick(MaxTime)

SpecList == Init /\ [][NextList]_vars

\* one blocked consumer and one producer of a list, with the scheduling the runtime
\* guarantees: a task that can run is run, timers fire, the lock is handed over
\* in arrival order
Consumers == {"c1"}
Producers == {"c3"}
ClockOrigin == 1

NextBlpop ==
    \/ \E c \in Consumers : IssueBlpop(c)
    \/ \E c \in Producers : IssueRpush(c)
    \/ \E c \in Producers : IssueLpush(c)
    \/ \E c \in Clients : Acquire(c)
    \/ \E c \in Clients : RpushBody(c)
    \/ \E c \in Clients : LpushBody(c)
    \/ \E c \in Clients : BlpopTry(c)
    \/ \E c \in Clients : BlpopCheck(c)
    \/ \E c \in Clients : BlpopWake(c)
    \/ \E c \in Clients : WriteValue(c)
    \/ Elapse(ClockOrigin)

FairBlpop ==
    /\ \A c \in Clients : SF_vars(Acquire(c))
    /\ \A c \in Clients : WF_vars(RpushBody(c))
    /\ \A c \in Clients : WF_vars(LpushBody(c))
    /\ \A c \in Clients : WF_vars(BlpopTry(c))
    /\ \A c \in Clients : WF_vars(BlpopCheck(c))
    /\ \A c \in Clients : WF_vars(BlpopWake(c))
    /\ \A c \in Clients : WF_vars(WriteValue(c))
    /\ WF_vars(Elapse(ClockOrigin))

SpecBlpop == Init /\ [][NextBlpop]_vars /\ FairBlpop

\* two blocked consumers and one producer of a list
NextBlpopPair ==
    \/ \E c \in Peers : IssueBlpop(c)
    \/ \E c \in Producers : IssueRpush(c)
    \/ \E c \in Clients : Acquire(c)
    \/ \E c \in Producers : RpushBody(c)
    \/ \E c \in Peers : BlpopTry(c)
    \/ \E c \in Peers : BlpopCheck(c)
    \/ \E c \in Peers : BlpopWake(c)
    \/ \E c \in Clients : WriteValue(c)
    \/ Tick(MaxTime)

SpecBlpopPair == Init /\ [][NextBlpopPair]_vars

\* a client that blocks on a stream or on a list next to a producer of both
NextBlocking ==
    \/ \E c \in Producers : IssueXadd(c, ExplicitIds)
    \/ \E c \in Consumers : IssueXread(c, XreadStartsIssued)
    \/ \E c \in Producers : IssueRpush(c)
    \/ \E c \in Consumers : IssueBlpop(c)
    \/ \E c \in Clients : Acquire(c)
    \/ \E c \in Clients : XaddBody(c)
    \/ \E c \in Consumers : XreadProbe(c)
    \/ \E c \in Consumers : XreadResolve(c)
    \/ \E c \in Consumers : XreadRegister(c)
    \/ \E c \in Consumers : XreadRecv(c)
    \/ \E c \in Consumers : XreadTimeout(c)
    \/ \E c \in Consumers : XreadRequery(c)
    \/ \E c \in Clients : RpushBody(c)
    \/ \E c \in Consumers : BlpopTry(c)
    \/ \E c \in Consumers : BlpopCheck(c)
    \/ \E c \in Consumers : BlpopWake(c)
    \/ \E c \in Clients : WriteValue(c)
    \/ Elapse(ClockOrigin)

SpecBlocking == Init /\ [][NextBlocking]_vars

\* a client that blocks on one or two streams next to a producer of both, which
\* requests the ids of one millisecond
IdsOfOneMs == {FormatId(MaxMs, seq) : seq \in 0..MaxSeq}

NextStreams ==
    \/ \E c \in Producers : IssueXaddAt(c, Keys, IdsOfOneMs)
    \/ \E c \in Consumers : IssueXreadBlock(c, Keys, XreadStartsIssued)
    \/ \E c \in Clients : Acquire(c)
    \/ \E c \in Producers : XaddBody(c)
    \/ \E c \in Consumers : XreadProbe(c)
    \/ \E c \in Consumers : XreadResolve(c)
    \/ \E c \in Consumers : XreadRegister(c)
    \/ \E c \in Consumers : XreadRecv(c)
    \/ \E c \in Consumers : XreadTimeout(c)
    \/ \E c \in Consumers : XreadRequery(c)
    \/ \E c \in Clients : WriteValue(c)
    \/ Tick(MaxStreamTime)

SpecStreams == Init /\ [][NextStreams]_vars

\* a producer whose requests include ids that XADD rejects, next to a reader
\* that blocks on the stream
NextRejected ==
    \/ \E c \in Producers : IssueXadd(c, RequestedIds)
    \/ \E c \in Consumers : IssueXread(c, XreadStartsIssued)
    \/ \E c \in Clients : Acquire(c)
    \/ \E c \in Producers : XaddBody(c)
    \/ \E c \in Consumers : XreadProbe(c)
    \/ \E c \in Consumers : XreadResolve(c)
    \/ \E c \in Consumers : XreadRegister(c)
    \/ \E c \in Consumers : XreadRecv(c)
    \/ \E c \in Consumers : XreadTimeout(c)
    \/ \E c \in Consumers : XreadRequery(c)
    \/ \E c \in Clients : WriteValue(c)
    \/ Tick(MaxStreamTime)

SpecRejected == Init /\ [][NextRejected]_vars

\* producers at the upper end of the sequence numbers
BoundaryIds ==
    {FormatId(ms, seq) : ms \in 0..MaxMs, seq \in {SeqLimit - 2, SeqLimit - 1}}
    \cup {ToStr(ms) \o <<Dash, Star>> : ms \in 0..MaxMs}

NextBoundary ==
    \/ \E c \in Clients : IssueXadd(c, BoundaryIds)
    \/ \E c \in Clients : Acquire(c)
    \/ \E c \in Clients : XaddBody(c)
    \/ \E c \in Clients : WriteValue(c)

SpecBoundary == Init /\ [][NextBoundary]_vars

\* tasks that park waiters of both kinds, cancel them and are notified
NextRegistry ==
    \/ \E c \in Clients : Park(c)
    \/ \E c \in Clients : Cancel(c)
    \/ \E c \in Clients : CancelXread(c)
    \/ \E c \in Clients : DropReceiver(c)
    \/ \E key \in Keys : NotifyLpop(key)
    \/ \E key \in Keys : NotifyXread(key)

SpecRegistry == Init /\ [][NextRegistry]_vars

\* connections that send requests the server rejects, among accepted ones
NextErrors ==
    \/ \E c \in Peers : IssueXadd(c, RequestedIds)
    \/ \E c \in Peers : RejectRequest(c)
    \/ \E c \in Peers : Acquire(c)
    \/ \E c \in Peers : XaddBody(c)
    \/ \E c \in Peers : WriteValue(c)

SpecErrors == Init /\ [][NextErrors]_vars

\* connections that write atoms, lists and streams to one key and ask its type
NextType ==
    \/ \E c \in Peers : IssueSet(c, ListKeys)
    \/ \E c \in Peers : IssueRpush(c)
    \/ \E c \in Peers : IssueLpush(c)
    \/ \E c \in Peers : IssueLpop(c)
    \/ \E c \in Peers : IssueXaddAt(c, ListKeys, ExplicitIds)
    \/ \E c \in Peers : IssueType(c, ListKeys)
    \/ \E c \in Peers : Acquire(c)
    \/ \E c \in Peers : SetBody(c)
    \/ \E c \in Peers : RpushBody(c)
    \/ \E c \in Peers : LpushBody(c)
    \/ \E c \in Peers : LpopBody(c)
    \/ \E c \in Peers : XaddBody(c)
    \/ \E c \in Peers : TypeBody(c)
    \/ \E c \in Peers : WriteValue(c)

SpecType == Init /\ [][NextType]_vars

\* one connection that fills two streams and reads them without BLOCK
NextXread ==
    \/ \E c \in Solo : IssueXaddAt(c, Keys, ExplicitIds)
    \/ \E c \in Solo : IssueXreadStreams(c, Keys, XreadStartsIssued)
    \/ \E c \in Solo : Acquire(c)
    \/ \E c \in Solo : XaddBody(c)
    \/ \E c \in Solo : XreadProbe(c)
    \/ \E c \in Solo : WriteValue(c)

SpecXread == Init /\ [][NextXread]_vars

\* one connection that runs the list commands on one key, which a SET can
\* turn into an atom

NextListOps ==
    \/ \E c \in Solo : IssueRpushUpTo(c, MaxOpsLen)
    \/ \E c \in Solo : IssueLpushUpTo(c, MaxOpsLen)
    \/ \E c \in Solo : IssueLpopArgs(c)
    \/ \E c \in Solo : IssueLrange(c)
    \/ \E c \in Solo : IssueSet(c, ListKeys)
    \/ \E c \in Solo : IssueGet(c, ListKeys)
    \/ \E c \in Solo : Acquire(c)
    \/ \E c \in Solo : RpushBody(c)
    \/ \E c \in Solo : LpushBody(c)
    \/ \E c \in Solo : LpopBody(c)
    \/ \E c \in Solo : LrangeBody(c)
    \/ \E c \in Solo : SetBody(c)
    \/ \E c \in Solo : GetBody(c)
    \/ \E c \in Solo : WriteValue(c)

SpecListOps == Init /\ [][NextListOps]_vars

\* writers and readers of one key that holds an atom with a deadline or a list
MaxKeyTime == 3

NextKeyspace ==
    \/ \E c \in Peers : IssueSet(c, ListKeys)
    \/ \E c \in Peers : IssueGet(c, ListKeys)
    \/ \E c \in Peers : IssueType(c, ListKeys)
    \/ \E c \in Peers : IssueLlen(c, ListKeys)
    \/ \E c \in Peers : IssueRpush(c)
    \/ \E c \in Peers : IssueLpop(c)
    \/ \E c \in Peers : Acquire(c)
    \/ \E c \in Peers : SetBody(c)
    \/ \E c \in Peers : GetBody(c)
    \/ \E c \in Peers : TypeBody(c)
    \/ \E c \in Peers : LlenBody(c)
    \/ \E c \in Peers : RpushBody(c)
    \/ \E c \in Peers : LpopBody(c)
    \/ \E c \in Peers : WriteValue(c)
    \/ Tick(MaxKeyTime)

SpecKeyspace == Init /\ [][NextKeyspace]_vars

----------------------------------------------------------------------------
(* Vocabulary of the properties *)

\* response r is the response e: the same kind with the same payload
IsResponse(r, e) == r.kind = e.kind /\ r.v = e.v

\* an id string as the numeric pair (ms, seq)
IdPair(id) == <<ParseUnsigned(SplitHead(id)), ParseUnsigned(SplitTail(id))>>
PairLess(a, b) == a[1] < b[1] \/ (a[1] = b[1] /\ a[2] < b[2])
PairLeq(a, b) == a = b \/ PairLess(a, b)

StreamData(key) == IF IsStream(values, key) THEN values[key].data ELSE <<>>

\* the last id L of a stream, (0, 0) for an empty or missing one
LastPair(key) ==
    IF Len(StreamData(key)) > 0 THEN IdPair(StreamData(key)[Len(StreamData(key))].id)
    ELSE <<0, 0>>

WellFormedIds == {<<Star>>} \cup AutoSeqIds \cup ExplicitIds

\* the id (ms_new, seq_new) a request resolves to on a stream, by the rules of XADD,
\* when the system clock reads now_ms
ResolvedMs(requested, now_ms) ==
    IF RequestedTimestampPart(requested) = <<Star>> THEN now_ms
    ELSE ParseUnsigned(RequestedTimestampPart(requested))
ResolvedSeq(requested, key, now_ms) ==
    LET ms == ResolvedMs(requested, now_ms)
    IN  IF RequestedSequencePart(requested) = <<Star>>
        THEN IF Len(StreamData(key)) > 0 /\ ms = LastPair(key)[1] THEN LastPair(key)[2] + 1
             ELSE IF Len(StreamData(key)) = 0 /\ RequestedTimestampPart(requested) # <<Star>>
             THEN (IF ms = 0 THEN 1 ELSE 0)
             ELSE 0
        ELSE ParseUnsigned(RequestedSequencePart(requested))
ResolvedPair(requested, key, now_ms) ==
    <<ResolvedMs(requested, now_ms), ResolvedSeq(requested, key, now_ms)>>

\* task c runs the critical section of its XADD in this step
XaddStep(c) == pc[c] = "xadd" /\ lock = c /\ pc'[c] # "xadd"

Rejected(r, m) == r.kind = "Err" /\ r.v = <<m>>

----------------------------------------------------------------------------
(* Properties of XADD *)

\* C1: in every reachable state the ids of the records of every stream are strictly
\* increasing as numeric pairs (ms, seq), whatever XADD commands the clients issued
\* (`*`, `<ms>-*`, `<ms>-<seq>`, accepted or rejected) and however they interleaved.
C1_StreamIdsStrictlyIncreasing ==
    \A key \in Keys :
        \A i \in 1..(Len(StreamData(key)) - 1) :
            PairLess(IdPair(StreamData(key)[i].id), IdPair(StreamData(key)[i + 1].id))

\* a stream of two records exists next to a client whose XADD was rejected
C1_Witness ==
    /\ \E key \in Keys : Len(StreamData(key)) >= 2
    /\ \E c \in Clients : Rejected(resp[c], MsgIdNotGreater)

\* C6: an XADD on a non-empty stream whose resolved id is not (0, 0) and is less than
\* or equal to the last id is rejected with the "equal or smaller" message, and an
\* XADD whose resolved id is greater than the last id is not rejected with it.
C6_NotGreaterIsRejected ==
    [][\A c \in Clients :
          (XaddStep(c) /\ cmd[c].id \in WellFormedIds /\ Len(StreamData(cmd[c].key)) > 0) =>
             \E t \in MsVals :
                LET R == ResolvedPair(cmd[c].id, cmd[c].key, t)
                    L == LastPair(cmd[c].key)
                IN  /\ (R # <<0, 0>> /\ PairLeq(R, L)) => Rejected(resp'[c], MsgIdNotGreater)
                    /\ PairLess(L, R) => IsResponse(resp'[c], BulkString(FormatId(R[1], R[2])))
      ]_vars

\* an XADD on a non-empty stream was rejected as not greater than the top item
C6_Witness ==
    \E c \in Clients, key \in Keys :
        Len(StreamData(key)) > 0 /\ Rejected(resp[c], MsgIdNotGreater)

\* C7: an XADD whose resolved id is (0, 0) is rejected with the "greater than 0-0"
\* message, on an empty, missing or non-empty stream alike, and no stream ever holds
\* a record with id (0, 0).
C7_ZeroIdIsRejected ==
    [][/\ \A c \in Clients :
            (XaddStep(c) /\ cmd[c].id \in WellFormedIds) =>
               \E t \in MsVals :
                  (ResolvedPair(cmd[c].id, cmd[c].key, t) = <<0, 0>>)
                      <=> Rejected(resp'[c], MsgIdZero)
       /\ \A key \in Keys :
            IsStream(values', key) =>
               \A i \in 1..Len(values'[key].data) : IdPair(values'[key].data[i].id) # <<0, 0>>
      ]_vars

\* a 0-0 id was rejected on a stream that already holds a record
C7_Witness ==
    \E c \in Clients, key \in Keys :
        Len(StreamData(key)) > 0 /\ Rejected(resp[c], MsgIdZero)

\* C8: for XADD <ms>-* on a non-empty stream with last id L the sequence number is
\* L.seq + 1 when ms = L.ms and 0 otherwise; an accepted command reports that id.
C8_AutoSeqOnNonEmptyStream ==
    [][\A c \in Clients :
          (XaddStep(c) /\ cmd[c].id \in AutoSeqIds /\ Len(StreamData(cmd[c].key)) > 0) =>
             LET ms == ParseUnsigned(SplitHead(cmd[c].id))
                 L  == LastPair(cmd[c].key)
                 sq == IF ms = L[1] THEN L[2] + 1 ELSE 0
             IN  /\ NewSequenceNumber(cmd[c].id, LastItemIdOption(values, cmd[c].key), ms) = sq
                 /\ resp'[c].kind = "BulkString" => resp'[c].v = <<FormatId(ms, sq)>>
                 /\ PairLess(L, <<ms, sq>>) => resp'[c].kind = "BulkString"
      ]_vars

\* both cases happened: a stream ends with <ms>-0 after an other timestamp, and
\* a stream ends with two records of the same timestamp
C8_Witness ==
    \E c \in Clients :
        /\ pc[c] = "write" /\ cmd[c].name = "Xadd" /\ cmd[c].id \in AutoSeqIds
        /\ Len(StreamData(cmd[c].key)) >= 2
        /\ resp[c].kind = "BulkString"
        /\ IdPair(resp[c].v[1])[2] >= 1

\* C9 (as claimed): for XADD <ms>-* on an empty or missing stream the sequence number
\* is 1 when ms is 0 and 0 for every other ms.
C9_AutoSeqOnEmptyStream ==
    [][\A c \in Clients :
          (XaddStep(c) /\ cmd[c].id \in AutoSeqIds /\ Len(StreamData(cmd[c].key)) = 0) =>
             LET ms == ParseUnsigned(SplitHead(cmd[c].id))
             IN  IsResponse(resp'[c], BulkString(FormatId(ms, IF ms = 0 THEN 1 ELSE 0)))
      ]_vars

----------------------------------------------------------------------------
(* Properties of XREAD and XRANGE *)

RecordsAfter(key, start) ==
    LET After(item) == PairLess(IdPair(start), IdPair(item.id))
    IN  SelectSeq(StreamData(key), After)

RecordsBetween(key, start, end) ==
    LET Between(item) == /\ PairLeq(IdPair(start), IdPair(item.id))
                         /\ PairLeq(IdPair(item.id), IdPair(end))
    IN  SelectSeq(StreamData(key), Between)

\* C2 (as claimed): no lost wake-up for XREAD BLOCK: a command that waits in its
\* select with no notification in its channel is not parked while the first key
\* holds a record with an id greater than its start id.
C2_NoLostWakeup ==
    \A c \in Clients :
        (pc[c] = "xread_select" /\ Len(chan[c]) = 0) =>
            RecordsAfter(cmd[c].streams[1].key, local[c].start_id) = <<>>

\* C3: the step that appends a record to a stream also sends the notification of
\* that record to every waiter registered on the key at that moment, keeps the
\* waiter registered, and ends with the engine lock released by the appender.
C3_AppendNotifiesInSameSection ==
    [][\A key \in Keys :
          Len(StreamData(key)') > Len(StreamData(key)) =>
             /\ lock # NoOne /\ lock' = NoOne
             /\ \A i \in 1..Len(waiting_clients[key]) :
                   LET w == waiting_clients[key][i]
                   IN  Len(chan[w.sender]) < ChannelCapacity =>
                          /\ chan'[w.sender] =
                                Append(chan[w.sender],
                                       StreamNotification(key,
                                           StreamData(key)'[Len(StreamData(key)')]))
                          /\ \E j \in 1..Len(waiting_clients'[key]) :
                                waiting_clients'[key][j] = w
      ]_vars

\* a parked reader holds the notification of a record appended after it registered
C3_Witness ==
    \E c \in Clients :
        /\ pc[c] = "xread_select"
        /\ Len(chan[c]) > 0
        /\ chan[c][1].item = StreamData(chan[c][1].key)[Len(StreamData(chan[c][1].key))]

\* C4 (as claimed): for every stream content and every start id, xread returns
\* exactly the records whose id is numerically greater than the start id.
C4_XreadReturnsExactlyGreater ==
    \A key \in StreamKeys, start \in ExplicitIds :
        Db_xread(values, key, start) = RecordsAfter(key, start)

\* task c runs the critical section of its XRANGE in this step
XrangeStep(c) == pc[c] = "xrange" /\ lock = c /\ pc'[c] # "xrange"

\* C5 (as claimed): XRANGE with two explicit bounds on a stream returns exactly the
\* records with start <= id <= end as numeric pairs, whether or not records with
\* those ids exist, and the empty array when no record lies in the range.
C5_XrangeReturnsExactlyBetween ==
    [][\A c \in Clients :
          (/\ XrangeStep(c)
           /\ IsStream(values, cmd[c].key)
           /\ cmd[c].start.some /\ cmd[c].start.v # <<Dash>>
           /\ cmd[c].end.some /\ cmd[c].end.v # <<Plus>>) =>
             /\ resp'[c].kind = "Array"
             /\ resp'[c].v = RecordsBetween(cmd[c].key, cmd[c].start.v, cmd[c].end.v)
      ]_vars

----------------------------------------------------------------------------
(* Properties of BLPOP *)

\* C10: BLPOP k 0 never times out: whenever it responds, the response is the
\* array [k, element] with an element popped from the list, never null-array.
C10_BlpopZeroNeverTimesOut ==
    \A c \in Clients :
        (cmd[c].name = "Blpop" /\ cmd[c].timeout = 0 /\ pc[c] \notin BlpopPcs) =>
            /\ pc[c] = "write"
            /\ resp[c].kind = "Array"
            /\ Len(resp[c].v) = 2
            /\ resp[c].v[1] = cmd[c].key
            /\ resp[c].v[2] \in ListVals

\* a BLPOP 0 answered with an element after the clock passed a polling period
C10_Witness ==
    \E c \in Clients :
        /\ cmd[c].name = "Blpop" /\ cmd[c].timeout = 0 /\ pc[c] = "write"
        /\ resp[c].kind = "Array"
        /\ now >= WAITING_TIME_FOR_BPLOP_MILLI

----------------------------------------------------------------------------
(* Properties of XREAD BLOCK 0 *)

\* task c executes XREAD BLOCK 0
IsBlockZero(c) ==
    cmd[c].name = "Xread" /\ cmd[c].duration.kind # "None" /\ cmd[c].duration.ms = 0

\* C11: XREAD BLOCK 0 never times out: a parked XREAD BLOCK 0 leaves its wait only
\* by taking a notification from its channel, and no XREAD BLOCK 0 ever responds
\* null-array.
C11_XreadBlockZeroNeverTimesOut ==
    [][\A c \in Clients :
          IsBlockZero(c) =>
             /\ (pc[c] = "xread_select" /\ pc'[c] # "xread_select") =>
                    (Len(chan[c]) > 0 /\ chan'[c] = Tail(chan[c]))
             /\ resp'[c].kind # "NullArray"
      ]_vars

\* a parked XREAD BLOCK 0 has left its wait and is about to read the record that
\* woke it
C11_Witness ==
    \E c \in Clients :
        /\ IsBlockZero(c) /\ pc[c] = "xread_requery"
        /\ RecordsAfter(cmd[c].streams[1].key, local[c].start_id) # <<>>

----------------------------------------------------------------------------
(* Properties of BLPOP under pushes *)

\* task c is inside the loop of a BLPOP
PendingBlpop(c) == cmd[c].name = "Blpop" /\ pc[c] \in BlpopPcs

\* some other task is executing a command that pops
OtherConsumer(c) == \E d \in Clients \ {c} : cmd[d].name \in {"Blpop", "Lpop"}

\* the BLPOP of task c is pending, its list holds a pushed element, and its deadline
\* (if it has one) has not been reached yet
PushedInTime(c) ==
    /\ PendingBlpop(c)
    /\ ListLen(cmd[c].key) > 0
    /\ (cmd[c].timeout = 0 \/ now < local[c].end_time)

\* the BLPOP of task c answers the array [k, v]
AnsweredElement(c) ==
    /\ cmd[c].name = "Blpop" /\ pc[c] = "write"
    /\ resp[c].kind = "Array" /\ Len(resp[c].v) = 2
    /\ resp[c].v[1] = cmd[c].key /\ resp[c].v[2] \in ListVals

\* C12 (as claimed): BLPOP wake: when a BLPOP on k is pending and an other client has
\* pushed an element onto k before the deadline of the BLPOP (at any time for a
\* timeout of 0), the BLPOP eventually answers the array [k, v], unless an other
\* consumer pops from k.
C12_BlpopWakesOnPush ==
    \A c \in Clients :
        PushedInTime(c) ~> (AnsweredElement(c) \/ OtherConsumer(c))

\* the BLPOP of task c answers null-array
AnsweredNull(c) ==
    cmd[c].name = "Blpop" /\ pc[c] = "write" /\ resp[c].kind = "NullArray"

C14_BlockedConsumersServedInOrder ==
    [][\A a \in Clients, b \in Clients :
          (/\ a # b /\ PendingBlpop(a) /\ PendingBlpop(b)
           /\ cmd[a].key = cmd[b].key
           /\ cmd[a].timeout > 0 /\ cmd[a].timeout = cmd[b].timeout
           /\ local[a].end_time < local[b].end_time
           /\ local[a].wake_at # NoTime /\ local[b].wake_at # NoTime) =>
             ~(pc'[b] = "write" /\ resp'[b].kind = "Array")
      ]_vars

\* C15 (as claimed): every LPUSH or RPUSH that adds elements to the list of key k
\* notifies, in the step that pushes (the critical section of the push), every
\* BLPOP that waits on k: the waiter has a notification in its channel or has
\* left its wait when the pusher releases the lock.
C15_PushNotifiesInSameSection ==
    [][\A k \in Keys, c \in Clients :
          (/\ IsList(values', k)
           /\ Len(values'[k].data) > ListLen(k)
           /\ PendingBlpop(c) /\ cmd[c].key = k /\ pc[c] = "blpop_sleep") =>
             (Len(chan'[c]) > Len(chan[c]) \/ pc'[c] # "blpop_sleep")
      ]_vars

----------------------------------------------------------------------------
(* The engine lock and the blocking commands *)

\* positions at which a task awaits a timer or its notification channel
WaitPcs == {"blpop_sleep", "xread_select"}

\* C16: no task holds the engine lock while it awaits a timer or a notification
\* channel: the lock is free or held by a task that is about to run an engine
\* operation that does not suspend, and never by a waiting BLPOP or XREAD BLOCK.
C16_LockNotHeldWhileWaiting ==
    /\ \A c \in Clients : pc[c] \in WaitPcs => lock # c
    /\ lock # NoOne => pc[lock] \in LockPcs

\* an other client holds the lock while a blocking command waits
C16_Witness ==
    \E c \in Clients, d \in Clients :
        c # d /\ pc[c] \in WaitPcs /\ lock = d /\ pc[d] \in {"xadd", "rpush"}

----------------------------------------------------------------------------
(* Atoms, expirations and variants *)

\* c completes the critical section of its command named name in this step
Executes(c, name) ==
    /\ cmd[c].name = name
    /\ lock = c
    /\ pc'[c] = "write"

\* C17: a SET without PX clears any prior expiration of the key: when the SET
\* has run, the expiration table has no entry for the key (so that a later GET
\* returns the value that was set, at every later time).
C17_SetWithoutPxClearsExpiration ==
    [][\A c \in Clients :
          (Executes(c, "Set") /\ ~cmd[c].expiry_millis.some) =>
             /\ expirations'[cmd[c].key] = NoTime
             /\ values'[cmd[c].key] = Atom(cmd[c].value)
      ]_vars

\* C18: SET k v PX t stores v with the deadline (time of the SET + t), and as
\* long as that value and deadline stand, a GET k that runs while now < deadline
\* returns bulk string v and a GET k that runs after the deadline returns
\* null-bulk.
C18_GetBeforeAndAfterDeadline ==
    [][\A c \in Clients :
          /\ (Executes(c, "Set") /\ cmd[c].expiry_millis.some) =>
                /\ values'[cmd[c].key] = Atom(cmd[c].value)
                /\ expirations'[cmd[c].key] = now + cmd[c].expiry_millis.v
          /\ (/\ Executes(c, "Get")
              /\ values[cmd[c].key].type = "Atom"
              /\ expirations[cmd[c].key] # NoTime) =>
                /\ now < expirations[cmd[c].key] =>
                      IsResponse(resp'[c], BulkString(values[cmd[c].key].data[1]))
                /\ now > expirations[cmd[c].key] => resp'[c] = NullBulkString
      ]_vars

\* one GET was answered null-bulk and removed the expired atom, the key was SET
\* again with PX, and an other GET is answered the new value before its deadline
C18_Witness ==
    \E a \in Clients, b \in Clients :
        /\ a # b
        /\ cmd[a].name = "Get" /\ pc[a] = "write" /\ resp[a] = NullBulkString
        /\ cmd[b].name = "Get" /\ pc[b] = "write" /\ cmd[b].key = cmd[a].key
        /\ values[cmd[b].key].type = "Atom"
        /\ resp[b] = BulkString(values[cmd[b].key].data[1])
        /\ expirations[cmd[b].key] # NoTime
        /\ 0 < now /\ now < expirations[cmd[b].key]

\* the response of each read command for a key that is absent
AbsentResponse(name) ==
    IF name = "Type" THEN SimpleString("none")
    ELSE IF name = "Llen" THEN Integer(0)
    ELSE NullBulkString

ReadCommands == {"Get", "Type", "Llen", "Lpop"}

\* C19: once the deadline of a key has passed, every read of it (GET, TYPE,
\* LLEN, LPOP) answers as for an absent key, and the read that meets the
\* expired key removes both its value and its deadline.
C19_ExpiredKeyAbsentOnEveryRead ==
    [][\A c \in Clients :
          (/\ cmd[c].name \in ReadCommands
           /\ Executes(c, cmd[c].name)
           /\ expirations[cmd[c].key] # NoTime
           /\ now > expirations[cmd[c].key]) =>
             /\ IsResponse(resp'[c], AbsentResponse(cmd[c].name))
             /\ values'[cmd[c].key] = NoValue
             /\ expirations'[cmd[c].key] = NoTime
      ]_vars

\* C20: the variant of a key never changes during the key's lifetime: in every
\* pair of consecutive states in which the key holds a value, the variant
\* (Atom, List, Stream) is the same.
C20_VariantNeverChanges ==
    [][\A k \in Keys :
          (values[k].type # "None" /\ values'[k].type # "None") =>
             values'[k].type = values[k].type
      ]_vars

----------------------------------------------------------------------------
(* Properties of the list commands *)

\* c leaves the critical section of its command at position at in this step
Leaves(c, at) == pc[c] = at /\ lock = c /\ pc'[c] # at

Reversed(seq) == [i \in 1..Len(seq) |-> seq[Len(seq) + 1 - i]]

\* the list stored at k, empty when nothing is stored there
ListAt(k) == IF IsList(values, k) THEN values[k].data ELSE <<>>

\* C21: RPUSH or LPUSH on a key whose value is not a List fails: the response
\* is an error, not an integer, and the stored value is unchanged; on a missing
\* key a List is created and the response is the new length.
C21_PushOnNonListFails ==
    [][\A c \in Clients :
          (Leaves(c, "rpush") \/ Leaves(c, "lpush")) =>
             LET k == cmd[c].key
             IN  /\ values[k].type \notin {"None", "List"} =>
                       /\ resp'[c].kind = "Err"
                       /\ values'[k] = values[k]
                 /\ values[k].type = "None" =>
                       /\ IsList(values', k)
                       /\ IsResponse(resp'[c], Integer(Len(values'[k].data)))
      ]_vars

\* C22: LPUSH k v1 ... vn leaves vn, ..., v1 (the reverse of the input order)
\* in front of the previous contents and answers the previous length plus n;
\* RPUSH k v1 ... vn leaves v1, ..., vn in input order behind the previous
\* contents.
C22_PushOrder ==
    [][\A c \in Clients :
          LET k == cmd[c].key
          IN  /\ (Leaves(c, "lpush") /\ values[k].type \in {"None", "List"}) =>
                    /\ values'[k] = List(Reversed(cmd[c].values) \o ListAt(k))
                    /\ IsResponse(resp'[c],
                                  Integer(Len(ListAt(k)) + Len(cmd[c].values)))
              /\ (Leaves(c, "rpush") /\ values[k].type \in {"None", "List"}) =>
                    values'[k] = List(ListAt(k) \o cmd[c].values)
      ]_vars

\* an LPUSH of two different values on a list that was not empty has answered
C22_Witness ==
    \E c \in Clients :
        /\ cmd[c].name = "Lpush" /\ pc[c] = "write"
        /\ Len(cmd[c].values) = 2 /\ cmd[c].values[1] # cmd[c].values[2]
        /\ Len(ListAt(cmd[c].key)) > 2
        /\ resp[c] = Integer(Len(ListAt(cmd[c].key)))

\* C23: lpop(key, n) removes and returns the first min(n, len) elements in
\* front-to-back order and leaves the rest unchanged; for a missing key, an
\* empty list, a value that is not a List, or n = 0 it returns nothing and
\* changes nothing.
C23_LpopTakesFront ==
    [][\A c \in Clients :
          Leaves(c, "lpop") =>
             LET k == cmd[c].key
                 n == cmd[c].count
                 old == ListAt(k)
                 m == IF n < Len(old) THEN n ELSE Len(old)
             IN  IF IsList(values, k) /\ Len(old) > 0 /\ n > 0
                 THEN /\ values'[k] = List([i \in 1..(Len(old) - m) |-> old[m + i]])
                      /\ IsResponse(resp'[c], LpopResponse([i \in 1..m |-> old[i]]))
                 ELSE /\ values' = values
                      /\ IsResponse(resp'[c], NullBulkString)
      ]_vars

\* an LPOP that asked for more elements than the list held has popped them all
C23_Witness ==
    \E c \in Clients :
        /\ cmd[c].name = "Lpop" /\ pc[c] = "write"
        /\ resp[c].kind = "Array"
        /\ cmd[c].count > Len(resp[c].v)
        /\ IsList(values, cmd[c].key) /\ values[cmd[c].key].data = <<>>

\* C24: LPOP k without a count answers a single bulk string, or null-bulk when
\* the list is missing or empty; LPOP k count answers an array whatever was
\* popped (empty for nothing, one element for one).
C24_LpopResponseShape ==
    [][\A c \in Clients :
          Leaves(c, "lpop") =>
             IF cmd[c].arg.some
             THEN /\ resp'[c].kind = "Array"
                  /\ Len(resp'[c].v) =
                        Len(ListAt(cmd[c].key)) - (IF IsList(values', cmd[c].key)
                                                   THEN Len(values'[cmd[c].key].data)
                                                   ELSE 0)
             ELSE resp'[c].kind = IF Len(ListAt(cmd[c].key)) = 0 THEN "NullBulkString"
                                  ELSE "BulkString"
      ]_vars

\* C25: with negative indices counted from the end, s = max(0, start') and
\* e = min(len - 1, stop'), LRANGE returns the elements at positions s..e
\* inclusive (the single element at s when s = e), and nothing when s > e or
\* the key holds no list.
C25_LrangeClamped ==
    [][\A c \in Clients :
          Leaves(c, "lrange") =>
             LET list == ListAt(cmd[c].key)
                 len == Len(list)
                 start1 == IF cmd[c].start < 0 THEN len + cmd[c].start ELSE cmd[c].start
                 stop1 == IF cmd[c].stop < 0 THEN len + cmd[c].stop ELSE cmd[c].stop
                 s == IF start1 < 0 THEN 0 ELSE start1
                 e == IF stop1 > len - 1 THEN len - 1 ELSE stop1
             IN  /\ resp'[c].kind = "Array"
                 /\ resp'[c].v = IF s > e THEN <<>>
                                 ELSE [i \in 1..(e - s + 1) |-> list[s + i]]
      ]_vars

----------------------------------------------------------------------------
(* XREAD without BLOCK *)

\* the records of a listed stream with an id greater than its start id
\* ($ stands for the last id of the stream, which no record exceeds)
NewerRecords(stream) ==
    IF stream.start.last THEN <<>> ELSE RecordsAfter(stream.key, stream.start.id)

RECURSIVE EntriesInOrder(_)
\* one [key, records] entry for each listed stream that has newer records
EntriesInOrder(streams) ==
    IF Len(streams) = 0 THEN <<>>
    ELSE (IF Len(NewerRecords(Head(streams))) > 0
          THEN <<[key |-> Head(streams).key, items |-> NewerRecords(Head(streams))]>>
          ELSE <<>>) \o EntriesInOrder(Tail(streams))

\* C26: XREAD without BLOCK answers null-array exactly when no listed stream
\* holds a record with an id greater than its start id; otherwise it answers an
\* array with one [key, records] entry for each listed stream that has such a
\* record, and only those, in the order of the request.
C26_XreadWithoutBlock ==
    [][\A c \in Clients :
          (Leaves(c, "xread_probe") /\ cmd[c].duration.kind = "None") =>
             IF Len(EntriesInOrder(cmd[c].streams)) = 0
             THEN resp'[c].kind = "NullArray"
             ELSE /\ resp'[c].kind = "Array"
                  /\ resp'[c].v = EntriesInOrder(cmd[c].streams)
      ]_vars

----------------------------------------------------------------------------
(* Connections: errors and the order of the responses *)

\* C27: engine errors are recoverable at the connection level: the error of a
\* failed command (rejected or malformed XADD id, unknown command, argument
\* error) is a response that is written to the client, and the connection stays
\* open for its next request.
C27_ErrorsKeepConnectionOpen ==
    \A c \in Clients :
        /\ resp[c].kind = "Err" => pc[c] = "write"
        /\ pc[c] # "closed"

\* a new request of connection c is read in this step
ReadsRequest(c) == cmd'[c] # cmd[c] /\ cmd'[c] # NoCommand

\* the response of connection c is written in this step
WritesResponse(c) == pc[c] = "write" /\ pc'[c] # "write"

\* C28: on every connection requests and responses alternate, so that the i-th
\* response written answers the i-th request read: a request is read only when
\* the response to the previous request of the connection was written, the
\* response written is the one the request under way produced, and a request
\* gets its response once; a BLPOP that is blocked holds back no connection but
\* its own.
C28_ResponsesInRequestOrder ==
    [][\A c \in Clients :
          /\ ReadsRequest(c) =>
                (pc[c] = "idle" /\ cmd[c] = NoCommand /\ resp[c] = Pending)
          /\ WritesResponse(c) =>
                (/\ cmd[c] # NoCommand /\ resp[c] # Pending
                 /\ pc'[c] = "idle" /\ cmd'[c] = NoCommand /\ resp'[c] = Pending)
          /\ (resp'[c] # resp[c] /\ resp'[c] # Pending) =>
                (cmd[c] # NoCommand /\ resp[c] = Pending /\ pc'[c] = "write")
          /\ (pc[c] \in BlpopPcs /\ pc'[c] \in BlpopPcs) => cmd'[c] = cmd[c]
      ]_vars

\* while the BLPOP of one connection is blocked, an other connection has had a
\* request executed and its response is about to be written
C28_Witness ==
    \E c \in Clients, d \in Clients :
        /\ c # d
        /\ pc[c] = "blpop_sleep" /\ local[c].wake_at # NoTime
        /\ pc[d] = "write" /\ cmd[d].name \in {"Rpush", "Lpush", "Lpop"}
        /\ resp[d].kind \in {"Integer", "NullBulkString"}

----------------------------------------------------------------------------
(* TYPE *)

\* the name TYPE gives to what is stored at k
VariantName(k) ==
    CASE values[k].type = "Atom" -> "string"
      [] values[k].type = "List" -> "list"
      [] values[k].type = "Stream" -> "stream"
      [] OTHER -> "none"

\* C29: after any sequence of write commands (SET, RPUSH, LPUSH, LPOP, XADD,
\* accepted or rejected), TYPE k answers "string", "list" or "stream" exactly
\* when the value stored at k is an Atom, a List or a Stream, and "none" exactly
\* when no value is stored at k.
C29_TypeReflectsStoredVariant ==
    [][\A c \in Clients :
          Leaves(c, "type") =>
             /\ resp'[c].kind = "SimpleString"
             /\ resp'[c].v = <<VariantName(cmd[c].key)>>
      ]_vars

\* TYPE has answered "stream" for a key that an XADD made a stream
C29_Witness ==
    \E c \in Clients :
        /\ cmd[c].name = "Type" /\ pc[c] = "write"
        /\ resp[c] = SimpleString("stream")
        /\ IsStream(values, cmd[c].key)

----------------------------------------------------------------------------
(* The waiters of the blocking registry *)

\* the positions of XREAD in Command::execute
XreadPcs == {"xread_probe", "xread_resolve", "xread_register", "xread_select",
             "xread_requery"}

\* the waiters of the registry, of every key
Waiters == UNION {{waiting_clients[k][i] : i \in 1..Len(waiting_clients[k])} : k \in Keys}

WaiterIds == {w.id : w \in Waiters}

\* the waiter w belongs to the XREAD BLOCK of its sender, which has parked
\* and has not responded
OwnedByParked(w) ==
    /\ pc[w.sender] \in {"xread_select", "xread_requery"}
    /\ cmd[w.sender].name = "Xread" /\ cmd[w.sender].duration.kind # "None"
    /\ cmd[w.sender].streams[1].key = w.key
    /\ local[w.sender].client_id = w.id

\* no waiter is twice in the registry, and no command has two waiters
WaitersDistinct ==
    /\ \A k \in Keys : \A i, j \in 1..Len(waiting_clients[k]) :
          i # j => /\ waiting_clients[k][i].id # waiting_clients[k][j].id
                   /\ waiting_clients[k][i].sender # waiting_clients[k][j].sender
    /\ \A k \in Keys : \A i \in 1..Len(waiting_clients[k]) :
          waiting_clients[k][i].key = k

\* C30: each waiter of the registry belongs to exactly one XREAD BLOCK that has
\* parked and not yet responded; when the command responds, after a
\* notification or a timeout, its waiter is no longer in the registry; and a
\* waiter that left the registry is never in it again: the waiters in the
\* registry were all created before, and a waiter that enters is a new one.
C30_WaiterLifecycle ==
    [][/\ \A w \in Waiters' : OwnedByParked(w)'
       /\ WaitersDistinct'
       /\ \A c \in Clients :
             (pc[c] \in XreadPcs /\ pc'[c] \notin XreadPcs) =>
                \A w \in Waiters' : w.sender # c
       /\ \A id \in WaiterIds : id <= uuid_next
       /\ \A id \in WaiterIds' \ WaiterIds : id > uuid_next
      ]_vars

\* a blocked XREAD has answered null-array after its timeout and has no waiter
\* left, while the waiter of an other blocked XREAD is in the registry
C30_Witness ==
    \E c \in Clients, d \in Clients :
        /\ c # d
        /\ cmd[c].name = "Xread" /\ cmd[c].duration.kind = "Normal"
        /\ pc[c] = "write" /\ resp[c] = NullArray
        /\ \A w \in Waiters : w.sender # c
        /\ pc[d] = "xread_select"
        /\ \E w \in Waiters : w.sender = d /\ w.id = local[d].client_id

----------------------------------------------------------------------------
(* The registry of waiters: cancel and notify *)

\* the ids a waiter can have, and one that no waiter has
SomeIds == 0..Cardinality(Clients)

\* queue without the waiter at position p
WithoutPosition(queue, p) ==
    [i \in 1..(Len(queue) - 1) |-> IF i < p THEN queue[i] ELSE queue[i + 1]]

\* the registry wc1 is wc without the waiter id of key k: the other waiters of
\* k keep their place and order, and the queues of the other keys are the same
RemovedOnly(wc, wc1, id, k) ==
    /\ \A k2 \in Keys \ {k} : wc1[k2] = wc[k2]
    /\ IF \E p \in 1..Len(wc[k]) : wc[k][p].id = id
       THEN \E p \in 1..Len(wc[k]) :
               wc[k][p].id = id /\ wc1[k] = WithoutPosition(wc[k], p)
       ELSE wc1[k] = wc[k]

\* C31: cancelling a waiter is idempotent and touches nothing else: for every
\* registry, id and key, remove_blocked_client (and remove_blocked_xread_client)
\* applied twice gives the registry it gives applied once, an id or key that is
\* not registered leaves the registry unchanged, every other waiter of the key
\* keeps its place and order, and the queues of the other keys are unchanged.
C31_CancelIsIdempotent ==
    \A k \in Keys, id \in SomeIds :
        LET once == Blocking_remove_blocked_client(waiting_clients, id, k)
            xonce == remove_blocked_xread_client(waiting_clients, id, k)
        IN  /\ Blocking_remove_blocked_client(once, id, k) = once
            /\ RemovedOnly(waiting_clients, once, id, k)
            /\ remove_blocked_xread_client(xonce, id, k) = xonce
            /\ RemovedOnly(waiting_clients, xonce, id, k)

\* a task has cancelled its waiter, which was parked between two waiters that
\* are still in the queue of the key
C31_Witness ==
    \E c \in Clients, k \in Keys :
        /\ pc[c] = "left" /\ cmd[c].key = k
        /\ Len(waiting_clients[k]) = 2
        /\ waiting_clients[k][1].id < local[c].client_id
        /\ local[c].client_id < waiting_clients[k][2].id

\* the try_send of a notify to waiter w fails: its receiver is dropped or its
\* channel is full
SendFails(w) == ~(pc[w.sender] = "parked" /\ Len(chan[w.sender]) < SmallCapacity)

\* r is the outcome of a notify of the given kind on key k: of the queue of k
\* exactly the waiters of that kind whose send failed are gone, the others keep
\* their order; the other queues are unchanged; and a notification went to the
\* waiters of that kind whose send succeeded, and to nobody else
NotifiedOnly(r, k, kind, notification) ==
    LET Stays(w) == ~(w.kind = kind /\ SendFails(w))
        Gets(c) == \E i \in 1..Len(waiting_clients[k]) :
                      /\ waiting_clients[k][i].sender = c
                      /\ waiting_clients[k][i].kind = kind
                      /\ ~SendFails(waiting_clients[k][i])
    IN  /\ r.waiting_clients[k] = SelectSeq(waiting_clients[k], Stays)
        /\ \A k2 \in Keys \ {k} : r.waiting_clients[k2] = waiting_clients[k2]
        /\ \A c \in Clients :
              r.chan[c] = IF Gets(c) THEN Append(chan[c], notification) ELSE chan[c]

\* C32: a notify on key k (notify_xread_clients, notify_lpop_clients) removes
\* from the queue of k exactly the waiters of its own kind whose non-blocking
\* send failed; the waiters of its kind whose send succeeded stay, the waiters
\* of the other kind are neither sent anything nor removed, the retained
\* waiters keep their order, and the queues of the other keys are unchanged.
C32_NotifyDropsFailedOfOwnKind ==
    \A k \in Keys :
        /\ NotifiedOnly(Blocking_notify_lpop_clients(waiting_clients, chan, Alive,
                                                     SmallCapacity, k),
                        k, "List", ListNotification(k))
        /\ NotifiedOnly(Blocking_notify_xread_clients(waiting_clients, chan, Alive,
                            SmallCapacity, k, StreamItem(FormatId(0, 1), "f")),
                        k, "Stream", StreamNotification(k, StreamItem(FormatId(0, 1), "f")))

\* a notify of list waiters has dropped the waiter of a task that is gone, has
\* sent to the list waiter behind it, and has left the stream waiter of the
\* key where it was, with nothing sent to it
C32_Witness ==
    \E c \in Clients, k \in Keys :
        /\ pc[c] = "gone" /\ cmd[c].key = k /\ cmd[c].kind = "List"
        /\ \A i \in 1..Len(waiting_clients[k]) : waiting_clients[k][i].sender # c
        /\ Len(waiting_clients[k]) = 2
        /\ waiting_clients[k][1].kind = "Stream"
        /\ chan[waiting_clients[k][1].sender] = <<>>
        /\ waiting_clients[k][2].kind = "List"
        /\ chan[waiting_clients[k][2].sender] = <<ListNotification(k)>>

----------------------------------------------------------------------------
(* XREAD BLOCK: the start id, the re-query and the streams listed *)

\* c runs an XREAD BLOCK whose first stream has the start id $
BlocksOnLast(c) ==
    /\ cmd[c].name = "Xread" /\ cmd[c].duration.kind # "None"
    /\ cmd[c].streams[1].start.last

\* C33: for XREAD BLOCK with id $ the start id is resolved once: the start id
\* with which the waiter is parked, and with which the re-query after the wait
\* runs, is the last id of the first key at the initial probe of the command
\* (so that every record appended after the probe is reported).
C33_LastResolvedOnce ==
    \A c \in Clients :
        (BlocksOnLast(c) /\ pc[c] \in {"xread_register", "xread_select", "xread_requery"}) =>
            /\ local[c].start_id = local[c].probe_start_id
            /\ \A k \in Keys : \A i \in 1..Len(waiting_clients[k]) :
                  waiting_clients[k][i].sender = c =>
                     waiting_clients[k][i].xread_start = local[c].probe_start_id

\* the items of the response r of an XREAD BLOCK, none for null-array
ItemsReported(r) == IF r.kind = "Array" THEN r.v[1].items ELSE <<>>

C35_BlocksOnFirstKeyOnly ==
    [][\A c \in Clients :
          LET first == cmd[c].streams[1].key
          IN  /\ Leaves(c, "xread_register") =>
                    /\ \A k \in Keys \ {first} : waiting_clients'[k] = waiting_clients[k]
                    /\ Len(waiting_clients'[first]) = Len(waiting_clients[first]) + 1
                    /\ SubSeq(waiting_clients'[first], 1, Len(waiting_clients[first]))
                          = waiting_clients[first]
                    /\ waiting_clients'[first][Len(waiting_clients'[first])].sender = c
              /\ pc[c] \in {"xread_select", "xread_requery"} =>
                    \A p \in Clients :
                        (Leaves(p, "xadd") /\ cmd[p].key # first) => chan'[c] = chan[c]
              /\ Leaves(c, "xread_requery") =>
                    \/ resp'[c].kind = "NullArray"
                    \/ /\ resp'[c].kind = "Array"
                       /\ Len(resp'[c].v) = 1
                       /\ resp'[c].v[1].key = first
      ]_vars

\* an XREAD BLOCK over two streams is parked, unwoken, while the second stream
\* listed holds a record that is newer than the start id given for it
C35_Witness ==
    \E c \in Clients :
        /\ pc[c] = "xread_select"
        /\ Len(cmd[c].streams) = 2
        /\ Len(chan[c]) = 0
        /\ ~cmd[c].streams[2].start.last
        /\ Len(RecordsAfter(cmd[c].streams[2].key, cmd[c].streams[2].start.id)) > 0

----------------------------------------------------------------------------
(* Lists: what is pushed, what is returned, what stays *)

\* the number of times e occurs in seq
Occurrences(seq, e) == Cardinality({i \in 1..Len(seq) : seq[i] = e})

\* the elements that the response r of LPOP or BLPOP carries
ElementsReturned(name, r) ==
    IF name = "Blpop" THEN (IF r.kind = "Array" THEN Tail(r.v) ELSE <<>>)
    ELSE IF r.kind = "BulkString" THEN r.v
    ELSE IF r.kind = "Array" THEN r.v
    ELSE <<>>

\* the elements that this step hands to a consumer of key k
ReturnedNow(c, k) ==
    IF (Leaves(c, "lpop") \/ Leaves(c, "blpop_try")) /\ cmd[c].key = k /\ pc'[c] = "write"
    THEN ElementsReturned(cmd[c].name, resp'[c]) ELSE <<>>

\* the elements that this step pushes on key k
PushedNow(c, k) ==
    IF (Leaves(c, "rpush") \/ Leaves(c, "lpush")) /\ cmd[c].key = k
    THEN cmd[c].values ELSE <<>>

\* C36: under any interleaving of RPUSH and LPUSH with LPOP and BLPOP, each step
\* removes from the head of the list exactly the elements it returns, to one
\* consumer, and adds exactly the elements it pushes: an element is delivered
\* at most once, what is returned was pushed before, and the elements pushed
\* are the elements returned plus those still in the list.
C36_ElementsDeliveredOnce ==
    [][\A k \in ListKeys :
          LET list == ListAt(k)
              list1 == IF IsList(values', k) THEN values'[k].data ELSE <<>>
          IN  /\ \A c \in Clients :
                    Len(ReturnedNow(c, k)) > 0 =>
                        /\ list = ReturnedNow(c, k) \o list1
                        /\ \A d \in Clients \ {c} : Len(ReturnedNow(d, k)) = 0
              /\ \A c \in Clients :
                    Len(PushedNow(c, k)) > 0 =>
                        \A e \in ListVals :
                            Occurrences(list1, e)
                              = Occurrences(list, e) + Occurrences(PushedNow(c, k), e)
              /\ (\A c \in Clients : Len(ReturnedNow(c, k)) = 0 /\ Len(PushedNow(c, k)) = 0)
                    => list1 = list
      ]_vars

\* two consumers hold an element each, one from BLPOP and one from LPOP
C36_Witness ==
    \E c \in Clients, d \in Clients :
        /\ c # d
        /\ pc[c] = "write" /\ cmd[c].name = "Blpop" /\ resp[c].kind = "Array"
        /\ pc[d] = "write" /\ cmd[d].name = "Lpop" /\ resp[d].kind = "BulkString"

----------------------------------------------------------------------------
(* XADD: what a rejected request leaves, and what an accepted one stored *)

\* C37: an XADD that is rejected (an id of 0-0, an id not greater than the last
\* one, a malformed id) changes nothing: the keyspace, the expirations and the
\* registry of blocked clients are as before, no stream key is created and no
\* waiter is notified.
C37_RejectedXaddChangesNothing ==
    [][\A c \in Clients :
          (Leaves(c, "xadd") /\ resp'[c].kind = "Err") =>
              /\ values' = values
              /\ expirations' = expirations
              /\ waiting_clients' = waiting_clients
              /\ chan' = chan
      ]_vars

\* an XADD was rejected for an id that is not greater than the last one, while
\* a reader is parked on the stream with nothing in its channel
C37_Witness ==
    \E p \in Clients, c \in Clients :
        /\ pc[p] = "closed"
        /\ IsResponse(resp[p], ErrResp(MsgIdNotGreater))
        /\ pc[c] = "xread_select"
        /\ Len(waiting_clients[cmd[c].streams[1].key]) > 0
        /\ Len(chan[c]) = 0

\* C38: whenever XADD answers a bulk string id, the stream at the key holds a
\* last record with exactly that id and the fields of the request, whatever
\* the key held before (nothing, a stream, an atom or a list).
C38_AnsweredIdIsStored ==
    [][\A c \in Clients :
          (Leaves(c, "xadd") /\ resp'[c].kind = "BulkString") =>
              /\ IsStream(values', cmd[c].key)
              /\ Len(values'[cmd[c].key].data) > 0
              /\ values'[cmd[c].key].data[Len(values'[cmd[c].key].data)]
                    = StreamItem(resp'[c].v[1], cmd[c].field_value_pairs)
      ]_vars

----------------------------------------------------------------------------
(* Stream reads on a key without records *)

\* C39: stream reads are total: XRANGE (with bounds omitted, `-` or `+`) and
\* XREAD (blocking or not, from `$` or from an id) on a key that holds no stream
\* record end with a response; no step of them aborts the task by taking the
\* first or the last record of a stream that is not there.
C39_StreamReadsAreTotal ==
    [][\A c \in Clients :
          (Leaves(c, "xrange") \/ Leaves(c, "xread_probe") \/ Leaves(c, "xread_resolve"))
              => pc'[c] # "panicked"
      ]_vars

----------------------------------------------------------------------------
(* Sequence numbers at the 64-bit boundary *)

\* XADD <ms>-* is about to run on a stream whose last id L has ms = L.ms and
\* the largest sequence number
AtSequenceBoundary(c) ==
    /\ pc[c] = "xadd"
    /\ RequestedSequencePart(cmd[c].id) = <<Star>>
    /\ cmd[c].id # <<Star>>
    /\ Db_xlast(values, cmd[c].key).some
    /\ LET last_item_id == LastItemIdOption(values, cmd[c].key)
       IN  /\ ParseUnsigned(RequestedTimestampPart(cmd[c].id)) = LastMsTime(last_item_id)
           /\ LastSeqNum(last_item_id) = SeqLimit - 1

\* C40: automatic sequence numbers do not wrap: XADD <ms>-* with ms = L.ms when
\* L.seq is the largest value of the width is rejected with an error, no id is
\* accepted and the stream is unchanged.
C40_SequenceDoesNotWrap ==
    [][\A c \in Clients :
          (AtSequenceBoundary(c) /\ Leaves(c, "xadd")) =>
              /\ resp'[c].kind = "Err"
              /\ values' = values
      ]_vars

\* the part of C40 that every build keeps: no id is accepted and the stream is
\* unchanged
BoundaryStoresNothing ==
    [][\A c \in Clients :
          (AtSequenceBoundary(c) /\ Leaves(c, "xadd")) =>
              /\ resp'[c].kind \in {"Err", "Panic"}
              /\ values' = values
      ]_vars

====
